---- MODULE Spec2Model ----
(***************************************************************************)
(* State-machine model of the Bali Blinds client                           *)
(* (custom_components/bali_blinds): the command reconciliation of          *)
(* coordinator.py, and the RPC session, device commands, reconnection and  *)
(* authentication of api.py.                                               *)
(*                                                                         *)
(* Each component has its own specification over the shared variables:     *)
(*   SpecCoord     BaliBlindCoordinator (pending positions, timeouts,      *)
(*                 refresh)                                                *)
(*   SpecCoordObs  the same coordinator with one window covering, observed *)
(*                 through last_real and live_targets                      *)
(*   SpecCoordPass the coordinator with the position updates that go to a  *)
(*                 device without pending command observed                 *)
(*   SpecCoordRace the coordinator without commands, with the position     *)
(*                 updates that arrive during a refresh observed           *)
(*   SpecCover     BaliBlindCover: a cover command with its API call, on   *)
(*                 the coordinator                                         *)
(*   SpecRpc       BaliWebSocket: calls, responses, timeouts, dispatch     *)
(*   SpecDispatch  BaliWebSocket: listeners and the calls made for each    *)
(*                 inbound message                                         *)
(*   SpecApi       BaliAPI.set_device_position with the reconnection it    *)
(*                 runs                                                    *)
(*   SpecApiPush   BaliAPI.ensure_websocket_connected, update listeners    *)
(*                 and push notifications                                  *)
(*   SpecApiList   BaliAPI.get_devices                                     *)
(*   SpecAuth      BaliAPI.authenticate                                    *)
(*   SpecSession   BaliWebSocket from construction: opening, calls and     *)
(*                 disconnect                                              *)
(*   SpecReceive   BaliWebSocket._receive_messages over every kind of      *)
(*                 inbound frame; SpecReceiveFair adds the fairness of the *)
(*                 event loop's clock and timeouts                         *)
(*   SpecConn      BaliWebSocket.connect with its retries and backoff      *)
(*   SpecEntry     a set-up config entry: commands, pushes, refreshes,     *)
(*                 timers and async_unload_entry                           *)
(*   SpecTasks     two tasks calling ensure_websocket_connected at once    *)
(* The variables of the other components stay at their initial values.     *)
(***************************************************************************)
EXTENDS Integers, Sequences, FiniteSets, TLC

(***************************************************************************)
(* Values                                                                  *)
(***************************************************************************)

\* Python's None for an absent numeric field (dict.get() of a missing key).
None == -1

\* Devices known to the hub.  d1 and d2 are window coverings, d3 is a device
\* of another category: it never enters the coordinator's data.
Devices == {"d1", "d2", "d3"}

\* Position values the hub reports and callers command.
Positions == {20, 40, 80}

\* async_call_later(self.hass, 30.0, ...)
PendingTimeout == 30

\* Granularity of the passage of time.
TickUnit == 15

\* Number of timer handles the scheduler can hold at once.
MaxTimers == 3

TimerIds == 1..MaxTimers

VARIABLES
    \* ---- BaliBlindCoordinator ----
    has_data,           \* self.data is not None (a refresh has succeeded)
    data,               \* self.data: device id -> [position, battery, switch]
    devices,            \* self._devices: the cached device list
    pending_positions,  \* self._pending_positions: device id -> target
    pending_timeouts,   \* self._pending_timeouts: device id -> timer handle
    timers,             \* the event loop's scheduled callbacks of async_call_later:
                        \* handle -> [dev, remaining, target]
    refresh,            \* the refresh in flight (_async_update_data)
    entities,           \* device ids that have a cover entity (cover.py)
    \* ---- BaliWebSocket: one session object ----
    ws,                 \* self._ws: "none", "open" or "closed"
    connected,          \* self._connected
    receive_task,       \* self._receive_task: "none", "running", "ended", "cancelled"
    pending_responses,  \* self._pending_responses: msg id -> the call's future
    listeners,          \* self._listeners: topic -> sequence of callbacks
    calls,              \* the _send_message calls made so far, each with its future
    last_inbound,       \* the last inbound message's id and the callbacks
                        \* invoked for it
    delivery,           \* the last dispatched message: its topic, the callbacks
                        \* that raise on it, and the calls made for it in order
    \* ---- BaliAPI ----
    auth_data,          \* self._auth_data
    websocket,          \* self._websocket: the session object, or NoSession
    update_callbacks,   \* self._update_callbacks
    op,                 \* the operation in progress and its locals
    sent,               \* the messages the operation sent on the transport
    auth_calls,         \* the authenticate calls: caller -> position and locals
    \* ---- BaliWebSocket.connect ----
    conn,               \* the connect() call: position, arguments, locals, and
                        \* the session's _ws and _connected
    attempts,           \* what each attempt did
    waits,              \* the delays slept so far
    \* ---- BaliAPI under concurrent operations ----
    objs,               \* the BaliWebSocket objects created so far
    current,            \* self._websocket: an index of objs, or 0 for None
    tasks,              \* the tasks in ensure_websocket_connected: position and
                        \* locals
    \* ---- observation ----
    sessions,           \* session objects created so far
    last_push,          \* the last push notification that arrived on the
                        \* session, and the callbacks invoked for it
    lost,               \* the last transport loss of a connected session: its
                        \* session and the callbacks registered by then
    cmd,                \* per device: the latest command and how it was resolved
    last_real,          \* per device: the last real position received
    live_targets,       \* per device: targets commanded since that real value
    passed,             \* the position update that the last step handled for a
                        \* device without pending command, if it did
    api_call,           \* per device: the set_device_position call of its
                        \* latest cover command ("none", "running", or how
                        \* it ended)
    overtaken,          \* devices the refresh in flight has polled and that
                        \* received a real position update afterwards
    unloaded            \* whether the entry was unloaded, and the session
                        \* object the unload released, as it left it

coordVars == <<has_data, data, devices, pending_positions, pending_timeouts,
               timers, refresh, entities>>

obsVars == <<last_real, live_targets>>

rpcVars == <<ws, connected, receive_task, pending_responses, listeners, calls,
             last_inbound>>

dispatchVars == <<delivery>>

watchVars == <<passed, api_call, overtaken, unloaded>>

taskVars == <<objs, current, tasks>>

connVars == <<conn, attempts, waits>>

apiVars == <<auth_data, websocket, update_callbacks, op, sent, sessions,
             last_push, lost>>

vars == <<has_data, data, devices, pending_positions, pending_timeouts,
          timers, refresh, entities, cmd, last_real, live_targets,
          ws, connected, receive_task, pending_responses, listeners, calls,
          last_inbound, auth_data, websocket, update_callbacks, op, sent,
          sessions, last_push, lost, auth_calls, objs, current, tasks,
          conn, attempts, waits, delivery, passed, api_call, overtaken,
          unloaded>>

(***************************************************************************)
(* Helpers on dictionaries (functions with a finite domain)                *)
(***************************************************************************)

EmptyDict == [x \in {} |-> 0]

\* del d[k]
DictDel(d, k) == [x \in (DOMAIN d) \ {k} |-> d[x]]

\* d[k] = v
DictSet(d, k, v) == [x \in (DOMAIN d) \cup {k} |-> IF x = k THEN v ELSE d[x]]

Max(a, b) == IF a > b THEN a ELSE b

(***************************************************************************)
(* BaliBlindCoordinator (coordinator.py)                                   *)
(***************************************************************************)

\* The hub's answers to hub.devices.list after the window_cov filter.
DeviceLists == {<< >>, <<"d1">>, <<"d1", "d2">>}

\* What get_device_items returns for a window covering: the dimmer value
\* read from the hub, the battery level and the switch value, which the
\* hub of the model never changes.  The constant metadata keys (name,
\* category, manufacturer, model, dimmer_id) are left out of the dictionary.
BatteryLevel == 90
SwitchValue == 1
DeviceItems == {[position |-> p, battery |-> BatteryLevel, switch |-> SwitchValue] :
                    p \in Positions}

\* Push messages the hub can send (api.py hands the full message to the
\* listener).  dev = "" stands for a missing id, name = "" for a missing name.
ItemMessages ==
    {[msg_subclass |-> "hub.item.updated", dev |-> d, name |-> "dimmer",
      value |-> v, reachable |-> "none"] : d \in Devices \cup {""}, v \in Positions}
    \cup
    {[msg_subclass |-> "hub.item.updated", dev |-> d, name |-> n,
      value |-> IF n = "battery" THEN BatteryLevel ELSE SwitchValue,
      reachable |-> "none"] :
          d \in Devices, n \in {"battery", "switch", "temperature", ""}}

DeviceMessages ==
    {[msg_subclass |-> "hub.device.updated", dev |-> d, name |-> "",
      value |-> None, reachable |-> r] :
          d \in Devices \cup {""}, r \in {"true", "false", "none"}}

OtherMessages ==
    {[msg_subclass |-> "hub.modes.switched", dev |-> "d1", name |-> "",
      value |-> None, reachable |-> "none"]}

PushMessages == ItemMessages \cup DeviceMessages \cup OtherMessages

\* The cancel callback returned by async_call_later: unschedules the timer;
\* calling it again, or after the timer has fired, does nothing.
CancelTimer(tm, h) == IF h \in DOMAIN tm THEN DictDel(tm, h) ELSE tm

\* A handle for a newly scheduled timer: not that of a scheduled timer and
\* not one a stored cancel callback still refers to.
FreeHandles(tm, pt) == TimerIds \ (DOMAIN tm \cup {pt[x] : x \in DOMAIN pt})

\* Mutant: the entries are deleted but the cancel callback is not called.
clear_pending_position_no_cancel(device_id) ==
    /\ pending_positions' =
           IF device_id \in DOMAIN pending_positions
               THEN DictDel(pending_positions, device_id)
               ELSE pending_positions
    /\ pending_timeouts' =
           IF device_id \in DOMAIN pending_timeouts
               THEN DictDel(pending_timeouts, device_id)
               ELSE pending_timeouts
    /\ UNCHANGED timers

\* coordinator.py:51-58
\* Variant of clear_pending_position that cancels the timer and leaves its
\* handle in the table.
clear_pending_position_keeps_entry(device_id) ==
    /\ pending_positions' =
           IF device_id \in DOMAIN pending_positions
               THEN DictDel(pending_positions, device_id)
               ELSE pending_positions
    /\ IF device_id \in DOMAIN pending_timeouts
           THEN /\ timers' = CancelTimer(timers, pending_timeouts[device_id])
                /\ UNCHANGED pending_timeouts
           ELSE UNCHANGED <<timers, pending_timeouts>>

clear_pending_position(device_id) ==
    /\ pending_positions' =
           IF device_id \in DOMAIN pending_positions
               THEN DictDel(pending_positions, device_id)
               ELSE pending_positions
    /\ IF device_id \in DOMAIN pending_timeouts
           THEN /\ timers' = CancelTimer(timers, pending_timeouts[device_id])
                /\ pending_timeouts' = DictDel(pending_timeouts, device_id)
           ELSE UNCHANGED <<timers, pending_timeouts>>

\* coordinator.py:60-83 (self.data is a dictionary here)
\* Variant of handle_item_update in which a position update drops every
\* pending command.
handle_item_update_clears_all(device_id, item_name, value) ==
    IF device_id \notin DOMAIN data
        THEN UNCHANGED <<data, pending_positions, pending_timeouts, timers>>
        ELSE CASE item_name = "dimmer" ->
                      /\ data' = [data EXCEPT ![device_id].position = value]
                      /\ pending_positions' = EmptyDict
                      /\ pending_timeouts' = EmptyDict
                      /\ timers' = EmptyDict
               [] item_name = "battery" ->
                      /\ data' = [data EXCEPT ![device_id].battery = value]
                      /\ UNCHANGED <<pending_positions, pending_timeouts, timers>>
               [] item_name = "switch" ->
                      /\ data' = [data EXCEPT ![device_id].switch = value]
                      /\ UNCHANGED <<pending_positions, pending_timeouts, timers>>
               [] OTHER ->
                      UNCHANGED <<data, pending_positions, pending_timeouts, timers>>

\* Variant of handle_item_update that stores a position update and leaves
\* the pending command of the device alone.
handle_item_update_keeps_pending(device_id, item_name, value) ==
    IF device_id \notin DOMAIN data
        THEN UNCHANGED <<data, pending_positions, pending_timeouts, timers>>
        ELSE /\ data' = CASE item_name = "dimmer" ->
                                 [data EXCEPT ![device_id].position = value]
                          [] item_name = "battery" ->
                                 [data EXCEPT ![device_id].battery = value]
                          [] item_name = "switch" ->
                                 [data EXCEPT ![device_id].switch = value]
                          [] OTHER -> data
             /\ UNCHANGED <<pending_positions, pending_timeouts, timers>>

handle_item_update(device_id, item_name, value) ==
    IF device_id \notin DOMAIN data
        THEN UNCHANGED <<data, pending_positions, pending_timeouts, timers>>
        ELSE CASE item_name = "dimmer" ->
                      /\ data' = [data EXCEPT ![device_id].position = value]
                      /\ IF device_id \in DOMAIN pending_positions
                             THEN clear_pending_position(device_id)
                             ELSE UNCHANGED <<pending_positions, pending_timeouts,
                                              timers>>
               [] item_name = "battery" ->
                      /\ data' = [data EXCEPT ![device_id].battery = value]
                      /\ UNCHANGED <<pending_positions, pending_timeouts, timers>>
               [] item_name = "switch" ->
                      /\ data' = [data EXCEPT ![device_id].switch = value]
                      /\ UNCHANGED <<pending_positions, pending_timeouts, timers>>
               [] OTHER ->
                      UNCHANGED <<data, pending_positions, pending_timeouts, timers>>

\* coordinator.py:85-101.  With self.data still None the membership test of
\* line 97 raises TypeError before anything is written; the caller logs it.
\* Variant of handle_device_update that reads every notification for a pending
\* device as an unreachable one.
handle_device_update_any(device_id, reachable) ==
    IF device_id \in DOMAIN pending_positions /\ has_data
        THEN /\ data' = IF device_id \in DOMAIN data
                            THEN [data EXCEPT ![device_id].position = pending_positions[device_id]]
                            ELSE data
             /\ clear_pending_position(device_id)
        ELSE UNCHANGED <<data, pending_positions, pending_timeouts, timers>>

handle_device_update(device_id, reachable) ==
    IF reachable = "false" /\ device_id \in DOMAIN pending_positions
        THEN IF ~has_data
                 THEN UNCHANGED <<data, pending_positions, pending_timeouts, timers>>
                 ELSE /\ data' = IF device_id \in DOMAIN data
                                     THEN [data EXCEPT ![device_id].position =
                                               pending_positions[device_id]]
                                     ELSE data
                      /\ clear_pending_position(device_id)
        ELSE UNCHANGED <<data, pending_positions, pending_timeouts, timers>>

\* coordinator.py:103-130.  Any exception of a handler is caught and logged:
\* with self.data None, line 63 raises TypeError and nothing changes.
handle_websocket_update(message) ==
    CASE message.msg_subclass = "hub.item.updated" ->
             IF message.dev # "" /\ message.name # "" /\ has_data
                 THEN handle_item_update(message.dev, message.name, message.value)
                 ELSE UNCHANGED <<data, pending_positions, pending_timeouts, timers>>
      [] message.msg_subclass = "hub.device.updated" ->
             IF message.dev # ""
                 THEN handle_device_update(message.dev, message.reachable)
                 ELSE UNCHANGED <<data, pending_positions, pending_timeouts, timers>>
      [] OTHER -> UNCHANGED <<data, pending_positions, pending_timeouts, timers>>

\* Mutant: the timeout handle of the device is left in the table.
apply_pending_position_callback_keeps_handle(device_id) ==
    IF device_id \notin DOMAIN pending_positions \/ ~has_data
        THEN UNCHANGED <<data, pending_positions, pending_timeouts>>
        ELSE /\ data' = IF device_id \in DOMAIN data
                            THEN [data EXCEPT ![device_id].position =
                                      pending_positions[device_id]]
                            ELSE data
             /\ pending_positions' = DictDel(pending_positions, device_id)
             /\ UNCHANGED pending_timeouts

\* coordinator.py:132-152.  With self.data still None line 145 raises
\* TypeError; the event loop logs it and nothing has been written.
apply_pending_position_callback(device_id) ==
    IF device_id \notin DOMAIN pending_positions \/ ~has_data
        THEN UNCHANGED <<data, pending_positions, pending_timeouts>>
        ELSE /\ data' = IF device_id \in DOMAIN data
                            THEN [data EXCEPT ![device_id].position =
                                      pending_positions[device_id]]
                            ELSE data
             /\ pending_positions' = DictDel(pending_positions, device_id)
             /\ pending_timeouts' =
                    IF device_id \in DOMAIN pending_timeouts
                        THEN DictDel(pending_timeouts, device_id)
                        ELSE pending_timeouts

\* Mutant: the timer of the replaced command is not cancelled.
set_target_position_stacks(device_id, position, h) ==
    /\ pending_positions' = DictSet(pending_positions, device_id, position)
    /\ timers' = DictSet(timers, h,
                         [dev |-> device_id, remaining |-> PendingTimeout,
                          target |-> position])
    /\ pending_timeouts' = DictSet(pending_timeouts, device_id, h)

\* coordinator.py:154-171.  h is the handle of the timer async_call_later
\* schedules; its target field records the command that scheduled it (the
\* callback itself is bound to the device id only).
set_target_position(device_id, position, h) ==
    LET cancelled == IF device_id \in DOMAIN pending_timeouts
                         THEN CancelTimer(timers, pending_timeouts[device_id])
                         ELSE timers
    IN  /\ pending_positions' = DictSet(pending_positions, device_id, position)
        /\ timers' = DictSet(cancelled, h,
                             [dev |-> device_id, remaining |-> PendingTimeout,
                              target |-> position])
        /\ pending_timeouts' = DictSet(pending_timeouts, device_id, h)

(***************************************************************************)
(* Actions of the coordinator                                              *)
(***************************************************************************)

RefreshIdle == [pc |-> "idle", idx |-> 0, acc |-> EmptyDict]

\* How the pending command of device d ended in this step, if it did:
\* cmd[d] keeps the target of the latest command for d and its resolution.
Resolved(d, how) ==
    cmd' = IF d \in DOMAIN pending_positions /\ d \notin DOMAIN pending_positions'
               THEN [cmd EXCEPT ![d].state = how]
               ELSE cmd

\* cover.py:90-94 async_set_cover_position (and open/close, 78-88): the
\* entity of a device records the target, then sends it to the hub.
CoverSetPosition(d, p) ==
    /\ d \in entities
    /\ \E h \in FreeHandles(timers, pending_timeouts) :
           /\ \A g \in FreeHandles(timers, pending_timeouts) : h <= g
           /\ set_target_position(d, p, h)
    /\ cmd' = [cmd EXCEPT ![d] = [state |-> "pending", target |-> p]]
    /\ UNCHANGED <<has_data, data, devices, refresh, entities>>

\* A push notification delivered to the coordinator's listener.
PushUpdate(m) ==
    /\ handle_websocket_update(m)
    /\ IF m.dev \in Devices
           THEN Resolved(m.dev, IF m.msg_subclass = "hub.item.updated"
                                    THEN "confirmed" ELSE "unreachable")
           ELSE UNCHANGED cmd
    /\ UNCHANGED <<has_data, devices, refresh, entities>>

\* The event loop runs a due timer: the handle is spent, the callback runs.
TimerFire(h) ==
    /\ h \in DOMAIN timers
    /\ timers[h].remaining = 0
    /\ timers' = DictDel(timers, h)
    /\ apply_pending_position_callback(timers[h].dev)
    /\ Resolved(timers[h].dev, "timeout")
    /\ UNCHANGED <<has_data, devices, refresh, entities>>

\* Time passes; a due timer runs before time passes further.
Tick ==
    /\ timers # EmptyDict
    /\ \A h \in DOMAIN timers : timers[h].remaining > 0
    /\ timers' = [h \in DOMAIN timers |->
                     [timers[h] EXCEPT !.remaining = Max(0, @ - TickUnit)]]
    /\ UNCHANGED <<has_data, data, devices, pending_positions, pending_timeouts,
                   refresh, entities, cmd>>

\* The refresh returns: DataUpdateCoordinator stores the result as self.data;
\* the first result is the one the platforms create their entities from.
RefreshReturn(result) ==
    /\ data' = result
    /\ has_data' = TRUE
    /\ entities' = IF has_data THEN entities ELSE DOMAIN result
    /\ refresh' = RefreshIdle

\* Variant of RefreshStart that asks for the device list in every refresh.
RefreshStart_always_lists ==
    /\ refresh.pc = "idle"
    /\ refresh' = [pc |-> "devices", idx |-> 0, acc |-> EmptyDict]
    /\ UNCHANGED <<has_data, data, devices, pending_positions, pending_timeouts,
                   timers, entities, cmd>>

\* coordinator.py:173-179: a refresh starts and awaits its first call.
RefreshStart ==
    /\ refresh.pc = "idle"
    /\ refresh' = IF devices = << >>
                      THEN [pc |-> "devices", idx |-> 0, acc |-> EmptyDict]
                      ELSE [pc |-> "items", idx |-> 1, acc |-> EmptyDict]
    /\ UNCHANGED <<has_data, data, devices, pending_positions, pending_timeouts,
                   timers, entities, cmd>>

\* coordinator.py:177-183: get_devices answers.
RefreshDevices(list) ==
    /\ refresh.pc = "devices"
    /\ devices' = list
    /\ IF list = << >>
           THEN RefreshReturn(EmptyDict)
           ELSE /\ refresh' = [pc |-> "items", idx |-> 1, acc |-> EmptyDict]
                /\ UNCHANGED <<has_data, data, entities>>
    /\ UNCHANGED <<pending_positions, pending_timeouts, timers, cmd>>

\* coordinator.py:183-193: get_device_items answers for the next device.
RefreshItems(items) ==
    /\ refresh.pc = "items"
    /\ LET acc == DictSet(refresh.acc, devices[refresh.idx], items)
       IN  IF refresh.idx = Len(devices)
               THEN RefreshReturn(acc)
               ELSE /\ refresh' = [pc |-> "items", idx |-> refresh.idx + 1,
                                   acc |-> acc]
                    /\ UNCHANGED <<has_data, data, entities>>
    /\ UNCHANGED <<devices, pending_positions, pending_timeouts, timers, cmd>>

\* Variant of RefreshFail that reports what the refresh had collected so far.
RefreshFail_reports_partial ==
    /\ refresh.pc \in {"devices", "items"}
    /\ refresh' = RefreshIdle
    /\ data' = refresh.acc
    /\ has_data' = TRUE
    /\ UNCHANGED <<devices, pending_positions, pending_timeouts,
                   timers, entities, cmd>>

\* coordinator.py:195-196: an API call of the refresh raises BaliAPIError;
\* UpdateFailed leaves self.data as it was.
RefreshFail ==
    /\ refresh.pc \in {"devices", "items"}
    /\ refresh' = RefreshIdle
    /\ UNCHANGED <<has_data, data, devices, pending_positions, pending_timeouts,
                   timers, entities, cmd>>

InitCoord ==
    /\ has_data = FALSE
    /\ data = EmptyDict
    /\ devices = << >>
    /\ pending_positions = EmptyDict
    /\ pending_timeouts = EmptyDict
    /\ timers = EmptyDict
    /\ refresh = RefreshIdle
    /\ entities = {}
    /\ cmd = [d \in Devices |-> [state |-> "none", target |-> None]]

InitObs ==
    /\ last_real = [d \in Devices |-> None]
    /\ live_targets = [d \in Devices |-> {}]

(***************************************************************************)
(* The coordinator observed: which real position each device last got, and *)
(* which targets were commanded since.                                     *)
(***************************************************************************)

\* The reported position of each device of ds has been written from a real
\* value (a push update or a refresh result).
ObserveReal(ds) ==
    /\ last_real' = [d \in Devices |->
                        IF d \in ds THEN data'[d].position ELSE last_real[d]]
    /\ live_targets' = [d \in Devices |->
                           IF d \in ds THEN {} ELSE live_targets[d]]

ObsCommand(d, p) ==
    /\ CoverSetPosition(d, p)
    /\ live_targets' = [live_targets EXCEPT ![d] = @ \cup {p}]
    /\ UNCHANGED last_real

ObsPush(m) ==
    /\ PushUpdate(m)
    /\ IF /\ m.msg_subclass = "hub.item.updated" /\ m.name = "dimmer"
          /\ has_data /\ m.dev \in DOMAIN data
           THEN ObserveReal({m.dev})
           ELSE UNCHANGED obsVars

ObsRefreshDevices(list) ==
    /\ RefreshDevices(list)
    /\ UNCHANGED obsVars

ObsRefreshItems(items) ==
    /\ RefreshItems(items)
    /\ IF refresh.idx = Len(devices)
           THEN ObserveReal(DOMAIN data')
           ELSE UNCHANGED obsVars

(***************************************************************************)
(* BaliWebSocket (api.py): calls, responses, timeouts, push dispatch       *)
(***************************************************************************)

\* Number of _send_message calls made in one behaviour.
MaxCalls == 2

\* asyncio.wait_for(future, timeout=30.0)
CallTimeout == 30

MsgIds == 1..MaxCalls

Methods == {"hub.items.list"}

Results == {"r1", "r2"}

Topics == {"hub.item.updated", "hub.device.updated"}

\* Inbound messages after json.loads: id 0 stands for a message without id;
\* msg_subclass "" for a message without one.
InboundMessages ==
    [id : 0..MaxCalls, result : Results,
     msg_subclass : {"", "hub.item.updated", "hub.modes.switched"}]

\* str(uuid.uuid4()): an identifier no earlier call has used.
uuid4(used) == CHOOSE i \in MsgIds \ used : \A j \in MsgIds \ used : i <= j

UsedIds == {calls[c].id : c \in 1..Len(calls)}

\* Mutant: the response completes the oldest waiting call, whatever its id.
handle_message_fifo(d) ==
    IF d.id # 0 /\ pending_responses # EmptyDict
        THEN LET i == CHOOSE k \in DOMAIN pending_responses :
                          \A j \in DOMAIN pending_responses : k <= j
                 c == pending_responses[i]
             IN  /\ pending_responses' = DictDel(pending_responses, i)
                 /\ calls' = IF calls[c].future = "pending"
                                 THEN [calls EXCEPT
                                          ![c].future = "done",
                                          ![c].value = d.result,
                                          ![c].outcome =
                                              IF @ = "waiting" THEN "returned" ELSE @]
                                 ELSE calls
                 /\ last_inbound' = [id |-> d.id, invoked |-> << >>]
        ELSE /\ UNCHANGED <<pending_responses, calls>>
             /\ last_inbound' = [id |-> d.id, invoked |-> << >>]

\* api.py:200-218.  A response resolves the future of its slot; the caller
\* awaiting it in _send_message (api.py:243-244) then returns the result.
\* Variant of handle_message that also hands a response to the subscribers of
\* its topic.
handle_message_also_dispatches(d) ==
    /\ IF d.id # 0 /\ d.id \in DOMAIN pending_responses
           THEN LET c == pending_responses[d.id]
                IN  /\ pending_responses' = DictDel(pending_responses, d.id)
                    /\ calls' = IF calls[c].future = "pending"
                                    THEN [calls EXCEPT
                                             ![c].future = "done",
                                             ![c].value = d.result,
                                             ![c].outcome =
                                                 IF @ = "waiting" THEN "returned" ELSE @]
                                    ELSE calls
           ELSE UNCHANGED <<pending_responses, calls>>
    /\ last_inbound' =
           [id |-> d.id,
            invoked |-> IF d.msg_subclass # "" /\ d.msg_subclass \in DOMAIN listeners
                            THEN listeners[d.msg_subclass]
                            ELSE << >>]

handle_message(d) ==
    IF d.id # 0 /\ d.id \in DOMAIN pending_responses
        THEN LET c == pending_responses[d.id]
             IN  /\ pending_responses' = DictDel(pending_responses, d.id)
                 /\ calls' = IF calls[c].future = "pending"
                                 THEN [calls EXCEPT
                                          ![c].future = "done",
                                          ![c].value = d.result,
                                          ![c].outcome =
                                              IF @ = "waiting" THEN "returned" ELSE @]
                                 ELSE calls
                 /\ last_inbound' = [id |-> d.id, invoked |-> << >>]
        ELSE /\ UNCHANGED <<pending_responses, calls>>
             /\ last_inbound' =
                    [id |-> d.id,
                     invoked |-> IF d.msg_subclass # ""
                                    /\ d.msg_subclass \in DOMAIN listeners
                                     THEN listeners[d.msg_subclass]
                                     ELSE << >>]

\* api.py:176-198: the receive loop hands a decoded text message on.
HandleMessage(d) ==
    /\ receive_task = "running"
    /\ ws = "open"
    /\ handle_message(d)
    /\ UNCHANGED <<ws, connected, receive_task, listeners>>

\* api.py:220-240: the call is refused without an open transport; otherwise a
\* slot is registered under a fresh id and the message is sent (send_json
\* may raise, and the exception leaves _send_message at once).
\* Mutant: the slot is registered before the transport is looked at.
send_message_registers_first(method, send_ok) ==
    LET msg_id == uuid4(UsedIds)
    IN  /\ pending_responses' = DictSet(pending_responses, msg_id, Len(calls) + 1)
        /\ calls' = Append(calls,
               [id |-> msg_id, method |-> method, future |-> "pending",
                value |-> "",
                outcome |-> IF ws # "open" THEN "not_connected"
                            ELSE IF send_ok THEN "waiting" ELSE "send_error",
                remaining |-> IF ws # "open" THEN 0 ELSE CallTimeout])

send_message(method, send_ok) ==
    IF ws # "open"
        THEN /\ calls' = Append(calls, [id |-> 0, method |-> method,
                                        future |-> "none", value |-> "",
                                        outcome |-> "not_connected",
                                        remaining |-> 0])
             /\ UNCHANGED pending_responses
        ELSE LET msg_id == uuid4(UsedIds)
             IN  /\ pending_responses' =
                        DictSet(pending_responses, msg_id, Len(calls) + 1)
                 /\ calls' = Append(calls,
                        [id |-> msg_id, method |-> method, future |-> "pending",
                         value |-> "",
                         outcome |-> IF send_ok THEN "waiting" ELSE "send_error",
                         remaining |-> CallTimeout])

SendMessage(method, send_ok) ==
    /\ Len(calls) < MaxCalls
    /\ send_message(method, send_ok)
    /\ UNCHANGED <<ws, connected, receive_task, listeners, last_inbound>>

Awaiting(c) == calls[c].outcome = "waiting" /\ calls[c].future = "pending"

\* Time passes for the calls that wait; a due timeout acts first.
RpcTick ==
    /\ \E c \in 1..Len(calls) : Awaiting(c)
    /\ \A c \in 1..Len(calls) : Awaiting(c) => calls[c].remaining > 0
    /\ calls' = [c \in 1..Len(calls) |->
                    IF Awaiting(c)
                        THEN [calls[c] EXCEPT !.remaining = Max(0, @ - TickUnit)]
                        ELSE calls[c]]
    /\ UNCHANGED <<ws, connected, receive_task, pending_responses, listeners,
                   last_inbound>>

\* api.py:243: the timeout of wait_for expires and cancels the awaited
\* future; the calling task resumes in a later step of the event loop.
\* Variant of WaitForTimeout in which the timeout is noticed only while the
\* receive loop runs.
WaitForTimeout_needs_loop(c) ==
    /\ c \in 1..Len(calls)
    /\ Awaiting(c)
    /\ calls[c].remaining = 0
    /\ receive_task = "running"
    /\ calls' = [calls EXCEPT ![c].future = "cancelled"]
    /\ UNCHANGED <<ws, connected, receive_task, pending_responses, listeners,
                   last_inbound>>

WaitForTimeout(c) ==
    /\ c \in 1..Len(calls)
    /\ Awaiting(c)
    /\ calls[c].remaining = 0
    /\ calls' = [calls EXCEPT ![c].future = "cancelled"]
    /\ UNCHANGED <<ws, connected, receive_task, pending_responses, listeners,
                   last_inbound>>

\* Mutant: the slot of the timed-out call is left in the table.
timeout_error_keeps_slot(c) ==
    /\ UNCHANGED pending_responses
    /\ calls' = [calls EXCEPT ![c].outcome = "timeout_error"]

\* api.py:245-247
timeout_error(c) ==
    /\ pending_responses' = IF calls[c].id \in DOMAIN pending_responses
                                THEN DictDel(pending_responses, calls[c].id)
                                ELSE pending_responses
    /\ calls' = [calls EXCEPT ![c].outcome = "timeout_error"]

TimeoutResume(c) ==
    /\ c \in 1..Len(calls)
    /\ calls[c].outcome = "waiting"
    /\ calls[c].future = "cancelled"
    /\ timeout_error(c)
    /\ UNCHANGED <<ws, connected, receive_task, listeners, last_inbound>>

\* api.py:159-174
\* Mutant: the receive task is left running.
disconnect_keeps_loop ==
    /\ connected' = FALSE
    /\ receive_task' = receive_task
    /\ ws' = IF ws = "open" THEN "closed" ELSE ws

disconnect ==
    /\ connected' = FALSE
    /\ receive_task' = IF receive_task = "running" THEN "cancelled"
                                                   ELSE receive_task
    /\ ws' = IF ws = "open" THEN "closed" ELSE ws

Disconnect ==
    /\ disconnect
    /\ UNCHANGED <<pending_responses, listeners, calls, last_inbound>>

\* api.py:192-194: the transport reports an error (aiohttp has closed the
\* connection by then) and the receive loop ends.
TransportError ==
    /\ receive_task = "running"
    /\ ws = "open"
    /\ receive_task' = "ended"
    /\ ws' = "closed"
    /\ UNCHANGED <<connected, pending_responses, listeners, calls, last_inbound>>

\* Frames other than a JSON object with a hashable id: text that is not
\* JSON, a binary frame, JSON that is not an object (data.get raises
\* AttributeError), and an object whose id is a list (the lookup in
\* _pending_responses raises TypeError).
OtherFrames == {"malformed_json", "binary", "json_not_object", "unhashable_id"}

\* _receive_messages for such a frame: JSONDecodeError is caught inside the
\* loop, a binary frame is skipped; any other exception leaves the loop and is
\* logged by the outer handler, which ends the task.
receive_frame(frame) ==
    /\ receive_task' = IF frame \in {"json_not_object", "unhashable_id"}
                       THEN "ended" ELSE receive_task
    /\ last_inbound' = [id |-> 0, invoked |-> << >>]

ReceiveFrame(frame) ==
    /\ receive_task = "running"
    /\ ws = "open"
    /\ receive_frame(frame)
    /\ UNCHANGED <<ws, connected, pending_responses, listeners, calls>>

\* ws_connect returned in connect(): the transport is open and the receive
\* task runs.
SessionOpen ==
    /\ ws = "none"
    /\ ws' = "open"
    /\ receive_task' = "running"
    /\ UNCHANGED <<connected, pending_responses, listeners, calls, last_inbound>>

\* connect() has completed login and register.
SessionEstablished ==
    /\ ws = "open"
    /\ receive_task = "running"
    /\ ~connected
    /\ connected' = TRUE
    /\ UNCHANGED <<ws, receive_task, pending_responses, listeners, calls,
                   last_inbound>>

\* api.py:66-84
InitRpc ==
    /\ ws = "none"
    /\ connected = FALSE
    /\ receive_task = "none"
    /\ pending_responses = EmptyDict
    /\ listeners = EmptyDict
    /\ calls = << >>
    /\ last_inbound = [id |-> 0, invoked |-> << >>]

\* A session after connect() (api.py:104-128) and the registration of the
\* coordinator's listener (api.py:590-599).
InitRpcConnected ==
    /\ ws = "open"
    /\ connected = TRUE
    /\ receive_task = "running"
    /\ pending_responses = EmptyDict
    /\ listeners = [t \in Topics |-> <<"coordinator">>]
    /\ calls = << >>
    /\ last_inbound = [id |-> 0, invoked |-> << >>]

(***************************************************************************)
(* BaliAPI (api.py): device commands, reconnection, update listeners       *)
(*                                                                         *)
(* One operation of the client runs at a time; it is followed from one     *)
(* await to the next.  Between two awaits the environment may drop the     *)
(* transport, deliver a push notification or register a listener.          *)
(***************************************************************************)

ApiDevices == {"d1", "d2"}

\* Requested positions: the ends of 0..100 and their outer neighbours.
ApiPositions == {0 - 1, 0, 100, 101}

Callbacks == {"cb1", "cb2"}

\* Default of max_retries.
MaxRetries == 3

\* Session objects the client creates in a behaviour.
MaxSessions == 2

\* Registrations one session's topic holds at most.
MaxListeners == 2

Item(id, dev, name) == [_id |-> id, deviceId |-> dev, name |-> name]

\* Items lists the hub answers hub.items.list with.  "" is a missing _id.
ItemLists ==
    { << >>,
      << Item("i2", "d1", "battery") >>,
      << Item("i1", "d1", "dimmer"), Item("i2", "d1", "battery"),
         Item("i3", "d2", "dimmer") >>,
      << Item("i3", "d2", "dimmer"), Item("i2", "d1", "battery"),
         Item("i1", "d1", "dimmer") >>,
      << Item("", "d1", "dimmer"), Item("i3", "d2", "dimmer") >> }

\* self._auth_data
NoAuth == [present |-> FALSE]

AuthData(v1, v2, v3, v4) ==
    [present |-> TRUE, identity_token |-> v1, identity_signature |-> v1,
     session_token |-> v2, server_account |-> v1, server_relay |-> v4,
     account_id |-> v1, device_id |-> v3]

\* self._websocket is None
NoSession == [exists |-> FALSE]

\* BaliWebSocket.__init__
NewSession(g) ==
    [exists |-> TRUE, gen |-> g, ws |-> "none", connected |-> FALSE,
     listeners |-> [t \in Topics |-> << >>], receive_task |-> "none"]

\* BaliWebSocket.connected
\* Variant of the connected property that reads only the _connected flag.
session_connected_flag_only(s) == s.exists /\ s.connected

session_connected(s) == s.exists /\ s.connected /\ s.ws = "open"

\* BaliWebSocket.add_listener
add_listener(s, event_id, callback) ==
    [s EXCEPT !.listeners[event_id] = Append(@, callback)]

\* BaliWebSocket.disconnect, on a session object
session_disconnect(s) ==
    [s EXCEPT !.connected = FALSE,
              !.receive_task = IF @ = "running" THEN "cancelled" ELSE @,
              !.ws = IF @ = "open" THEN "closed" ELSE @]

RECURSIVE add_update_listeners(_, _)
add_update_listeners(s, callbacks) ==
    IF callbacks = << >> THEN s
    ELSE add_update_listeners(
             add_listener(add_listener(s, "hub.item.updated", Head(callbacks)),
                          "hub.device.updated", Head(callbacks)),
             Tail(callbacks))

\* Mutant: nothing is registered on the new session.
reregister_nothing(s, callbacks) == s

\* The loop that closes ensure_websocket_connected.
reregister(s, callbacks) ==
    IF s.exists THEN add_update_listeners(s, callbacks) ELSE s

Message(method, id, value) == [method |-> method, item |-> id, value |-> value]

RECURSIVE first_dimmer(_, _)
\* Mutant: the first dimmer item of the list, whatever its device.
first_dimmer(items, device_id) ==
    IF items = << >> THEN ""
    ELSE IF Head(items).name = "dimmer" THEN Head(items)._id
    ELSE first_dimmer(Tail(items), device_id)

RECURSIVE find_dimmer_id(_, _)
\* The loop of set_device_position: the _id of the first item of the device
\* named "dimmer"; "" when there is none or it has no _id.
find_dimmer_id(items, device_id) ==
    IF items = << >> THEN ""
    ELSE IF Head(items).deviceId = device_id /\ Head(items).name = "dimmer"
         THEN Head(items)._id
    ELSE find_dimmer_id(Tail(items), device_id)

\* No push notification has arrived on the session yet.
NoPush == [topic |-> "", invoked |-> << >>]

OpIdle == [name |-> "", pc |-> "idle", device_id |-> "", position |-> 0,
           attempt |-> 0, dimmer_id |-> "", listed |-> FALSE, error |-> "",
           devices |-> << >>]

Finished(o, error) == [o EXCEPT !.pc = "done", !.error = error]

\* Where an operation waits on the event loop.
AtAwait == op.pc \in {"idle", "done", "ws_connect", "login_wait",
                      "register_wait", "items_wait", "set_wait",
                      "devices_wait"}

\* What follows ensure_websocket_connected in the operation.
after_ensure(o) ==
    IF o.name = "ensure_websocket_connected" THEN Finished(o, "ok")
    ELSE IF o.name = "get_devices" THEN [o EXCEPT !.pc = "list"]
    ELSE [o EXCEPT !.pc = "validate"]

CanStart ==
    /\ op.pc \in {"idle", "done"}
    /\ session_connected(websocket) \/ ~auth_data.present \/ sessions < MaxSessions

StartSetPosition(device_id, position) ==
    /\ CanStart
    /\ op' = [OpIdle EXCEPT !.name = "set_device_position", !.pc = "ensure",
                            !.device_id = device_id, !.position = position]
    /\ sent' = << >>
    /\ UNCHANGED <<auth_data, websocket, update_callbacks, sessions, last_push, lost>>

StartEnsure ==
    /\ CanStart
    /\ op' = [OpIdle EXCEPT !.name = "ensure_websocket_connected", !.pc = "ensure"]
    /\ sent' = << >>
    /\ UNCHANGED <<auth_data, websocket, update_callbacks, sessions, last_push, lost>>

\* ensure_websocket_connected up to ws_connect, with connect_websocket's
\* check of the auth data.
\* Variant of EnsureConnected without the early return of api.py:561-562.
EnsureConnected_always_reconnects ==
    /\ op.pc = "ensure"
    /\ IF ~auth_data.present
       THEN /\ websocket' = NoSession
            /\ op' = Finished(op, "auth_error")
            /\ UNCHANGED sessions
       ELSE /\ sessions' = sessions + 1
            /\ websocket' = NewSession(sessions + 1)
            /\ op' = [op EXCEPT !.pc = "ws_connect", !.attempt = 0]
    /\ last_push' = NoPush
    /\ UNCHANGED <<auth_data, update_callbacks, sent, lost>>

EnsureConnected ==
    /\ op.pc = "ensure"
    /\ IF session_connected(websocket)
       THEN /\ op' = after_ensure(op)
            /\ UNCHANGED <<websocket, sessions>>
       ELSE IF ~auth_data.present
       THEN /\ websocket' = NoSession
            /\ op' = Finished(op, "auth_error")
            /\ UNCHANGED sessions
       ELSE /\ sessions' = sessions + 1
            /\ websocket' = NewSession(sessions + 1)
            /\ op' = [op EXCEPT !.pc = "ws_connect", !.attempt = 0]
    /\ last_push' = IF session_connected(websocket) THEN last_push ELSE NoPush
    /\ UNCHANGED <<auth_data, update_callbacks, sent, lost>>

\* The except branch of BaliWebSocket.connect.
connect_failed ==
    /\ websocket' = [websocket EXCEPT
                        !.ws = "none", !.connected = FALSE,
                        !.receive_task = IF @ = "running" THEN "ended" ELSE @]
    /\ op' = IF op.attempt < MaxRetries - 1
             THEN [op EXCEPT !.pc = "ws_connect", !.attempt = @ + 1]
             ELSE Finished(op, "connection_error")

\* ws_connect returns: the receive task starts and loginUserMios is sent.
WsConnect(ok) ==
    /\ op.pc = "ws_connect"
    /\ IF ok
       THEN /\ websocket' = [websocket EXCEPT !.ws = "open",
                                              !.receive_task = "running"]
            /\ sent' = Append(sent, Message("loginUserMios", "", None))
            /\ op' = [op EXCEPT !.pc = "login_wait"]
       ELSE /\ connect_failed
            /\ UNCHANGED sent
    /\ UNCHANGED <<auth_data, update_callbacks, sessions, last_push, lost>>

Responds == websocket.ws = "open" /\ websocket.receive_task = "running"

\* The login result arrives and register is sent.
LoginResponse ==
    /\ op.pc = "login_wait"
    /\ Responds
    /\ sent' = Append(sent, Message("register", "", None))
    /\ op' = [op EXCEPT !.pc = "register_wait"]
    /\ UNCHANGED <<auth_data, websocket, update_callbacks, sessions, last_push, lost>>

\* A call of connect() gets no response within the timeout.
ConnectCallFails ==
    /\ op.pc \in {"login_wait", "register_wait"}
    /\ connect_failed
    /\ UNCHANGED <<auth_data, update_callbacks, sessions, sent, last_push, lost>>

\* The register result arrives: connect() sets _connected and returns,
\* connect_websocket returns, and ensure_websocket_connected registers the
\* update callbacks; no await lies between these.
RegisterResponse ==
    /\ op.pc = "register_wait"
    /\ Responds
    /\ websocket' = reregister([websocket EXCEPT !.connected = TRUE],
                               update_callbacks)
    /\ op' = after_ensure(op)
    /\ UNCHANGED <<auth_data, update_callbacks, sessions, sent, last_push, lost>>

\* set_device_position after ensure_websocket_connected: the range check and
\* the send of hub.items.list.
Validate ==
    /\ op.pc = "validate"
    /\ IF ~(0 <= op.position /\ op.position <= 100)
       THEN /\ op' = Finished(op, "value_error")
            /\ UNCHANGED sent
       ELSE IF websocket.ws # "open"
       THEN /\ op' = Finished(op, "connection_error")
            /\ UNCHANGED sent
       ELSE /\ sent' = Append(sent, Message("hub.items.list", "", None))
            /\ op' = [op EXCEPT !.pc = "items_wait"]
    /\ UNCHANGED <<auth_data, websocket, update_callbacks, sessions, last_push, lost>>

\* The items list arrives; the dimmer id is resolved and hub.item.value.set
\* is sent.
ItemsResponse(items) ==
    /\ op.pc = "items_wait"
    /\ Responds
    /\ LET dimmer_id == find_dimmer_id(items, op.device_id)
           o == [op EXCEPT !.dimmer_id = dimmer_id, !.listed = TRUE]
       IN  IF dimmer_id = ""
           THEN /\ op' = Finished(o, "connection_error")
                /\ UNCHANGED sent
           ELSE /\ sent' = Append(sent, Message("hub.item.value.set",
                                                dimmer_id, op.position))
                /\ op' = [o EXCEPT !.pc = "set_wait"]
    /\ UNCHANGED <<auth_data, websocket, update_callbacks, sessions, last_push, lost>>

SetResponse ==
    /\ op.pc = "set_wait"
    /\ Responds
    /\ op' = Finished(op, "ok")
    /\ UNCHANGED <<auth_data, websocket, update_callbacks, sessions, sent,
                   last_push, lost>>

\* A call of set_device_position gets no response within the timeout.
CallFails ==
    /\ op.pc \in {"items_wait", "set_wait", "devices_wait"}
    /\ op' = Finished(op, "connection_error")
    /\ UNCHANGED <<auth_data, websocket, update_callbacks, sessions, sent,
                   last_push, lost>>

\* An entry of the hub's device list; "" is a missing category.
HubDevice(id, name, category) == [_id |-> id, name |-> name, category |-> category]

\* Device lists the hub answers hub.devices.list with.
HubDeviceLists ==
    { << >>,
      << HubDevice("s1", "n3", "switch") >>,
      << HubDevice("d1", "n1", "window_cov"), HubDevice("s1", "n3", "switch"),
         HubDevice("d2", "n2", "window_cov") >>,
      << HubDevice("d2", "n2", "window_cov"), HubDevice("d1", "n1", "window_cov") >>,
      << HubDevice("g1", "n4", ""), HubDevice("d1", "n1", "window_cov") >> }

BaliDevice(device_id, name, category) ==
    [device_id |-> device_id, name |-> name, category |-> category]

RECURSIVE all_devices(_)
\* Mutant: every entry of the list is converted, whatever its category.
all_devices(device_list) ==
    IF device_list = << >> THEN << >>
    ELSE LET d == Head(device_list)
         IN  <<BaliDevice(d._id, d.name, d.category)>> \o all_devices(Tail(device_list))

RECURSIVE window_cov_devices(_)
\* The loop of get_devices.
window_cov_devices(device_list) ==
    IF device_list = << >> THEN << >>
    ELSE LET d == Head(device_list)
             rest == window_cov_devices(Tail(device_list))
         IN  IF d.category = "window_cov"
             THEN <<BaliDevice(d._id, d.name, d.category)>> \o rest
             ELSE rest

StartGetDevices ==
    /\ CanStart
    /\ op' = [OpIdle EXCEPT !.name = "get_devices", !.pc = "ensure"]
    /\ sent' = << >>
    /\ UNCHANGED <<auth_data, websocket, update_callbacks, sessions, last_push, lost>>

\* get_devices after ensure_websocket_connected: hub.devices.list is sent.
ListDevices ==
    /\ op.pc = "list"
    /\ IF websocket.ws # "open"
       THEN /\ op' = Finished(op, "connection_error")
            /\ UNCHANGED sent
       ELSE /\ sent' = Append(sent, Message("hub.devices.list", "", None))
            /\ op' = [op EXCEPT !.pc = "devices_wait"]
    /\ UNCHANGED <<auth_data, websocket, update_callbacks, sessions, last_push, lost>>

\* The device list arrives and is filtered.
DevicesResponse(device_list) ==
    /\ op.pc = "devices_wait"
    /\ Responds
    /\ op' = Finished([op EXCEPT !.devices = window_cov_devices(device_list),
                                 !.listed = TRUE], "ok")
    /\ UNCHANGED <<auth_data, websocket, update_callbacks, sessions, sent,
                   last_push, lost>>

\* The transport of the client's session is lost.
TransportDrop ==
    /\ AtAwait
    /\ websocket.exists
    /\ websocket.ws = "open"
    /\ websocket' = [websocket EXCEPT !.ws = "closed", !.receive_task = "ended"]
    /\ lost' = IF websocket.connected
               THEN [gen |-> websocket.gen,
                     callbacks |-> {update_callbacks[i] : i \in DOMAIN update_callbacks}]
               ELSE lost
    /\ UNCHANGED <<auth_data, update_callbacks, sessions, op, sent, last_push>>

\* A push notification arrives on the client's session (_handle_message).
PushArrives(topic) ==
    /\ AtAwait
    /\ websocket.exists
    /\ Responds
    /\ last_push' = [topic |-> topic, invoked |-> websocket.listeners[topic]]
    /\ UNCHANGED <<auth_data, websocket, update_callbacks, sessions, op, sent, lost>>

add_update_listener(callback) ==
    /\ update_callbacks' =
           IF \E i \in DOMAIN update_callbacks : update_callbacks[i] = callback
           THEN update_callbacks
           ELSE Append(update_callbacks, callback)
    /\ websocket' =
           IF websocket.exists
           THEN add_listener(add_listener(websocket, "hub.item.updated", callback),
                             "hub.device.updated", callback)
           ELSE websocket

AddUpdateListener(callback) ==
    /\ AtAwait
    /\ websocket.exists =>
           \A t \in Topics : Len(websocket.listeners[t]) < MaxListeners
    /\ add_update_listener(callback)
    /\ UNCHANGED <<auth_data, sessions, op, sent, last_push, lost>>

InitApi ==
    /\ auth_data = NoAuth
    /\ websocket = NoSession
    /\ update_callbacks = << >>
    /\ sessions = 0
    /\ op = OpIdle
    /\ sent = << >>
    /\ last_push = NoPush
    /\ lost = [gen |-> 0, callbacks |-> {}]

\* The client of a set-up entry (authenticated) or one that never
\* authenticated.
InitApiClient ==
    /\ auth_data \in {NoAuth, AuthData(1, 1, 1, 1)}
    /\ websocket = NoSession
    /\ update_callbacks = << >>
    /\ sessions = 0
    /\ op = OpIdle
    /\ sent = << >>
    /\ last_push = NoPush
    /\ lost = [gen |-> 0, callbacks |-> {}]

(***************************************************************************)
(* BaliAPI.authenticate (api.py): the four-step handshake                  *)
(*                                                                         *)
(* Two callers may run authenticate on the same client; each keeps the     *)
(* values of its responses in locals.  A response's values are named by a  *)
(* version, so that values of different responses can be told apart.       *)
(***************************************************************************)

AuthCallers == {"a1", "a2"}

\* Versions a response's values are drawn from.
MaxVersion == 2

Versions == 1..MaxVersion

\* Outcomes of a step.  client_error: the request raises an
\* aiohttp.ClientError (connection refused or reset); timeout: the session's
\* total timeout expires, which raises asyncio.TimeoutError; content_type:
\* response.json() meets a body that is not announced as JSON and raises
\* aiohttp.ContentTypeError, a ClientError; the others are the checks of the
\* code on status and fields.
IdentityOutcomes == {"ok", "status", "client_error", "timeout", "content_type",
                     "no_identity",
                     "no_signature", "bad_identity"}

SessionOutcomes == {"ok", "status", "client_error", "timeout"}

DevicesOutcomes == {"ok", "status", "client_error", "timeout", "content_type",
                    "no_gateway"}

HubOutcomes == {"ok", "status", "client_error", "timeout", "content_type",
                "no_relay"}

AuthIdle == [pc |-> "idle", identity |-> 0, session_token |-> 0, device |-> 0,
             error |-> "", reason |-> ""]

\* The except clauses of authenticate: aiohttp.ClientError becomes the
\* connection error, everything else the authentication error.
auth_failed(outcome) ==
    [AuthIdle EXCEPT !.pc = "done", !.reason = outcome,
                     !.error = IF outcome \in {"client_error", "content_type"}
                               THEN "connection_error" ELSE "auth_error"]

AuthStart(c) ==
    /\ auth_calls[c].pc \in {"idle", "done"}
    /\ auth_calls' = [auth_calls EXCEPT ![c] = [AuthIdle EXCEPT !.pc = "identity"]]
    /\ UNCHANGED auth_data

\* Step 1: the identity request and the decoding of its response.
authenticate_identity(c, v, outcome) ==
    /\ auth_calls' = [auth_calls EXCEPT ![c] =
           IF outcome = "ok"
           THEN [@ EXCEPT !.pc = "session", !.identity = v]
           ELSE auth_failed(outcome)]
    /\ auth_data' = auth_data

AuthIdentity(c, v, outcome) ==
    /\ auth_calls[c].pc = "identity"
    /\ authenticate_identity(c, v, outcome)

\* Step 2: the session token.
authenticate_session(c, v, outcome) ==
    /\ auth_calls' = [auth_calls EXCEPT ![c] =
           IF outcome = "ok"
           THEN [@ EXCEPT !.pc = "devices", !.session_token = v]
           ELSE auth_failed(outcome)]
    /\ auth_data' = auth_data

AuthSession(c, v, outcome) ==
    /\ auth_calls[c].pc = "session"
    /\ authenticate_session(c, v, outcome)

\* Step 3: the account's devices and the choice of the gateway.
authenticate_devices(c, v, outcome) ==
    /\ auth_calls' = [auth_calls EXCEPT ![c] =
           IF outcome = "ok"
           THEN [@ EXCEPT !.pc = "hub", !.device = v]
           ELSE auth_failed(outcome)]
    /\ auth_data' = auth_data

AuthDevices(c, v, outcome) ==
    /\ auth_calls[c].pc = "devices"
    /\ authenticate_devices(c, v, outcome)

\* Mutant: the bundle keeps the device id it had.
authenticate_hub_keeps_device(c, v, outcome) ==
    LET l == auth_calls[c]
    IN  /\ auth_calls' = [auth_calls EXCEPT ![c] =
               IF outcome = "ok" THEN [AuthIdle EXCEPT !.pc = "done"]
               ELSE auth_failed(outcome)]
        /\ auth_data' = IF outcome = "ok"
                        THEN AuthData(l.identity, l.session_token,
                                      IF auth_data.present
                                      THEN auth_data.device_id ELSE l.device, v)
                        ELSE auth_data

\* Step 4: the hub's relay, and the construction of the bundle.
authenticate_hub(c, v, outcome) ==
    LET l == auth_calls[c]
    IN  /\ auth_calls' = [auth_calls EXCEPT ![c] =
               IF outcome = "ok" THEN [AuthIdle EXCEPT !.pc = "done"]
               ELSE auth_failed(outcome)]
        /\ auth_data' = IF outcome = "ok"
                        THEN AuthData(l.identity, l.session_token, l.device, v)
                        ELSE auth_data

AuthHub(c, v, outcome) ==
    /\ auth_calls[c].pc = "hub"
    /\ authenticate_hub(c, v, outcome)

InitAuth ==
    auth_calls = [c \in AuthCallers |-> AuthIdle]

(***************************************************************************)
(* BaliAPI (api.py): operations that call ensure_websocket_connected       *)
(* concurrently                                                            *)
(*                                                                         *)
(* Every BaliWebSocket object the client created is kept in objs;          *)
(* current is the one self._websocket refers to (0: None).  Each task      *)
(* runs ensure_websocket_connected from one await to the next; connect()   *)
(* runs on the object it was called on, whatever self._websocket is by     *)
(* then.  The client is authenticated.                                     *)
(***************************************************************************)

\* The tasks: the coordinator's refresh and a cover command.
Tasks == {"refresh", "command"}

TaskIdle == [pc |-> "idle", self |-> 0, attempt |-> 0, error |-> ""]

current_connected == current # 0 /\ session_connected(objs[current])

\* connect_websocket: a new BaliWebSocket becomes self._websocket and
\* connect() starts on it.
create_and_connect(t, sessions_now) ==
    /\ Len(sessions_now) < MaxSessions
    /\ objs' = Append(sessions_now, NewSession(Len(sessions_now) + 1))
    /\ current' = Len(sessions_now) + 1
    /\ tasks' = [tasks EXCEPT ![t] = [TaskIdle EXCEPT !.pc = "ws_connect",
                                                      !.self = Len(sessions_now) + 1]]

\* BaliWebSocket.disconnect waits (for the cancelled receive task, or for
\* the close of the transport) exactly when the task runs or the transport
\* is open.
disconnect_waits(s) == s.receive_task = "running" \/ s.ws = "open"

\* ensure_websocket_connected up to its first await.
TaskEnsure(t) ==
    /\ tasks[t].pc \in {"idle", "done"}
    /\ IF current_connected
       THEN /\ tasks' = [tasks EXCEPT ![t] = [TaskIdle EXCEPT !.pc = "done", !.error = "ok"]]
            /\ UNCHANGED <<objs, current>>
       ELSE IF current # 0 /\ disconnect_waits(objs[current])
       THEN /\ objs' = [objs EXCEPT ![current] =
                           [@ EXCEPT !.connected = FALSE,
                                     !.receive_task = IF @ = "running"
                                                      THEN "cancelled" ELSE @]]
            /\ tasks' = [tasks EXCEPT ![t] = [TaskIdle EXCEPT !.pc = "disconnecting",
                                                              !.self = current]]
            /\ UNCHANGED current
       ELSE create_and_connect(t, IF current # 0
                                  THEN [objs EXCEPT ![current].connected = FALSE]
                                  ELSE objs)

\* disconnect() of the old session returns: self._websocket = None, then
\* connect_websocket.
TaskDisconnected(t) ==
    /\ tasks[t].pc = "disconnecting"
    /\ create_and_connect(t, [objs EXCEPT ![tasks[t].self] = session_disconnect(@)])

\* The except branch of BaliWebSocket.connect, on the task's own object.
task_connect_failed(t) ==
    /\ objs' = [objs EXCEPT ![tasks[t].self] =
                    [@ EXCEPT !.ws = "none", !.connected = FALSE,
                              !.receive_task = IF @ = "running" THEN "ended" ELSE @]]
    /\ tasks' = [tasks EXCEPT ![t] =
                    IF @.attempt < MaxRetries - 1
                    THEN [@ EXCEPT !.pc = "ws_connect", !.attempt = @ + 1]
                    ELSE [@ EXCEPT !.pc = "done", !.error = "connection_error"]]
    /\ UNCHANGED current

TaskWsConnect(t, ok) ==
    /\ tasks[t].pc = "ws_connect"
    /\ IF ok
       THEN /\ objs' = [objs EXCEPT ![tasks[t].self] =
                           [@ EXCEPT !.ws = "open", !.receive_task = "running"]]
            /\ tasks' = [tasks EXCEPT ![t].pc = "login_wait"]
            /\ UNCHANGED current
       ELSE task_connect_failed(t)

TaskResponds(t) ==
    /\ objs[tasks[t].self].ws = "open"
    /\ objs[tasks[t].self].receive_task = "running"

TaskLoginResponse(t) ==
    /\ tasks[t].pc = "login_wait"
    /\ TaskResponds(t)
    /\ tasks' = [tasks EXCEPT ![t].pc = "register_wait"]
    /\ UNCHANGED <<objs, current>>

TaskRegisterResponse(t) ==
    /\ tasks[t].pc = "register_wait"
    /\ TaskResponds(t)
    /\ objs' = [objs EXCEPT ![tasks[t].self].connected = TRUE]
    /\ tasks' = [tasks EXCEPT ![t] = [@ EXCEPT !.pc = "done", !.error = "ok"]]
    /\ UNCHANGED current

\* login or register gets no response within the timeout.
TaskCallFails(t) ==
    /\ tasks[t].pc \in {"login_wait", "register_wait"}
    /\ task_connect_failed(t)

\* The transport of one of the sessions is lost.
ObjectDrop(i) ==
    /\ i \in DOMAIN objs
    /\ objs[i].ws = "open"
    /\ objs' = [objs EXCEPT ![i] = [@ EXCEPT !.ws = "closed",
                                             !.receive_task = IF @ = "running"
                                                              THEN "ended" ELSE @]]
    /\ UNCHANGED <<current, tasks>>

InitTasks ==
    /\ objs = << >>
    /\ current = 0
    /\ tasks = [t \in Tasks |-> TaskIdle]

(***************************************************************************)
(* BaliWebSocket.connect (api.py): attempts, backoff, cleanup              *)
(*                                                                         *)
(* One connect() call on a new session object.  attempts records, for each *)
(* attempt, its transport and how far the attempt got; waits records the   *)
(* delays connect() slept.                                                 *)
(***************************************************************************)

\* Default of retry_delay.
RetryDelay == 2

\* Arguments connect() is called with: up to one more than the default, so
\* that three waits occur.
RetryLimits == 0..(MaxRetries + 1)

BaseDelays == {1, RetryDelay}

RECURSIVE Pow2(_)
Pow2(n) == IF n = 0 THEN 1 ELSE 2 * Pow2(n - 1)

\* Mutant: the delay grows linearly.
linear_delay(retry_delay, attempt) == retry_delay * (attempt + 1)

\* retry_delay * (2 ** attempt)
backoff_delay(retry_delay, attempt) == retry_delay * Pow2(attempt)

ConnIdle == [pc |-> "idle", max_retries |-> 0, retry_delay |-> 0, attempt |-> 0,
             ws |-> 0, connected |-> FALSE, last_error |-> "", error |-> "",
             carried |-> ""]

\* What one attempt did: its transport, its receive task, its two calls,
\* and the failure that ended it.
NewAttempt == [opened |-> FALSE, closed |-> FALSE, loop |-> "none",
               login |-> "none", register |-> "none", failure |-> ""]

\* BaliWebSocket.connected
reports_connected ==
    conn.connected /\ conn.ws # 0 /\ ~attempts[conn.ws].closed

\* connect() is called.
ConnectStart(max_retries, retry_delay) ==
    /\ conn.pc = "idle"
    /\ conn' = IF max_retries > 0
               THEN [ConnIdle EXCEPT !.pc = "ws_connect", !.max_retries = max_retries,
                                     !.retry_delay = retry_delay]
               ELSE [ConnIdle EXCEPT !.pc = "done", !.max_retries = max_retries,
                                     !.retry_delay = retry_delay,
                                     !.error = "connection_error"]
    /\ UNCHANGED <<attempts, waits>>

\* Mutant: the transport of the failed attempt stays open.
cleanup_keeps_transport(a, err) == [a EXCEPT !.failure = err]

\* The clean-up of the except branch: the transport is closed if it is open,
\* which ends the receive loop reading from it.
cleanup(a, err) ==
    IF a.opened /\ ~a.closed
    THEN [a EXCEPT !.closed = TRUE, !.failure = err,
                   !.loop = IF @ = "running" THEN "ended" ELSE @]
    ELSE [a EXCEPT !.failure = err]

\* The except branch of connect() for the attempt in progress, up to the
\* sleep or the final raise.
attempt_failed(atts, err) ==
    /\ attempts' = [atts EXCEPT ![Len(atts)] = cleanup(@, err)]
    /\ IF conn.attempt < conn.max_retries - 1
       THEN /\ conn' = [conn EXCEPT !.pc = "sleep", !.ws = 0, !.connected = FALSE,
                                    !.last_error = err]
            /\ waits' = Append(waits, backoff_delay(conn.retry_delay, conn.attempt))
       ELSE /\ conn' = [conn EXCEPT !.pc = "done", !.ws = 0, !.connected = FALSE,
                                    !.last_error = err,
                                    !.error = "connection_error", !.carried = err]
            /\ UNCHANGED waits

\* ws_connect returns or raises; on success the receive task starts and
\* loginUserMios is sent.
ConnOpen(ok) ==
    /\ conn.pc = "ws_connect"
    /\ IF ok
       THEN /\ attempts' = Append(attempts, [NewAttempt EXCEPT !.opened = TRUE,
                                                               !.loop = "running",
                                                               !.login = "sent"])
            /\ conn' = [conn EXCEPT !.pc = "login_wait", !.ws = Len(attempts) + 1]
            /\ UNCHANGED waits
       ELSE attempt_failed(Append(attempts, NewAttempt), "open_failed")

Answers == LET a == attempts[Len(attempts)]
           IN  a.opened /\ ~a.closed /\ a.loop = "running"

\* Mutant: the session is marked connected as soon as login is answered.
on_login_result_connected(c) == [c EXCEPT !.pc = "register_send", !.connected = TRUE]

\* The login result is returned to connect().
on_login_result(c) == [c EXCEPT !.pc = "register_send"]

ConnLoginAnswered ==
    /\ conn.pc = "login_wait"
    /\ Answers
    /\ attempts' = [attempts EXCEPT ![Len(attempts)].login = "answered"]
    /\ conn' = on_login_result(conn)
    /\ UNCHANGED waits

\* _send_message("register"): sent if the transport is open, else the call
\* raises at once.
ConnRegisterSend ==
    /\ conn.pc = "register_send"
    /\ IF attempts[Len(attempts)].closed
       THEN attempt_failed(attempts, "not_connected")
       ELSE /\ attempts' = [attempts EXCEPT ![Len(attempts)].register = "sent"]
            /\ conn' = [conn EXCEPT !.pc = "register_wait"]
            /\ UNCHANGED waits

ConnRegisterAnswered ==
    /\ conn.pc = "register_wait"
    /\ Answers
    /\ attempts' = [attempts EXCEPT ![Len(attempts)].register = "answered"]
    /\ conn' = [conn EXCEPT !.pc = "done", !.connected = TRUE, !.error = "ok"]
    /\ UNCHANGED waits

\* login or register gets no response within the timeout.
ConnCallTimeout ==
    /\ conn.pc \in {"login_wait", "register_wait"}
    /\ attempt_failed(attempts, IF conn.pc = "login_wait"
                                THEN "login_timeout" ELSE "register_timeout")

\* asyncio.sleep(delay) returns: the next attempt.
ConnWake ==
    /\ conn.pc = "sleep"
    /\ conn' = [conn EXCEPT !.pc = "ws_connect", !.attempt = @ + 1]
    /\ UNCHANGED <<attempts, waits>>

\* The peer closes the transport of the attempt in progress.
ConnTransportDrop ==
    /\ conn.ws # 0
    /\ ~attempts[conn.ws].closed
    /\ attempts' = [attempts EXCEPT ![conn.ws] =
                        [@ EXCEPT !.closed = TRUE,
                                  !.loop = IF @ = "running" THEN "ended" ELSE @]]
    /\ UNCHANGED <<conn, waits>>

InitConn ==
    /\ conn = ConnIdle
    /\ attempts = << >>
    /\ waits = << >>

(***************************************************************************)
(* The coordinator observed: the position update that went to a device     *)
(* without pending command in the last step.                               *)
(***************************************************************************)

NoPass == [dev |-> "", value |-> None]

PassPush(m) ==
    /\ PushUpdate(m)
    /\ passed' = IF /\ m.msg_subclass = "hub.item.updated" /\ m.name = "dimmer"
                    /\ has_data /\ m.dev \in DOMAIN data
                    /\ m.dev \notin DOMAIN pending_positions
                     THEN [dev |-> m.dev, value |-> m.value]
                     ELSE NoPass

(***************************************************************************)
(* BaliBlindCover (cover.py): a cover command and its API call             *)
(*                                                                         *)
(* A cover command records the target in the coordinator and then awaits   *)
(* api.set_device_position.  The commands of a device are followed one at  *)
(* a time: the next starts when the call of the previous one has ended.    *)
(***************************************************************************)

\* Positions passed to async_set_cover_position.
CoverPositions == {40, 101}

\* How set_device_position can end for a position (api.py:774-805): the
\* range check, a failed reconnection, no dimmer item, a call that times
\* out, or the value was set.
set_device_position_outcomes(position) ==
    IF 0 <= position /\ position <= 100
        THEN {"ok", "reconnect_failed", "no_dimmer", "call_timeout"}
        ELSE {"value_error", "reconnect_failed"}

\* cover.py:90-94: the target is recorded, then the call is awaited.
CoverCommand(d, p) ==
    /\ api_call[d] # "running"
    /\ CoverSetPosition(d, p)
    /\ api_call' = [api_call EXCEPT ![d] = "running"]

\* cover.py:94: the call returns or raises; the exception leaves
\* async_set_cover_position.
CoverCallEnds(d, outcome) ==
    /\ api_call[d] = "running"
    /\ outcome \in set_device_position_outcomes(cmd[d].target)
    /\ api_call' = [api_call EXCEPT ![d] = outcome]
    /\ UNCHANGED <<coordVars, cmd>>

InitWatch ==
    /\ passed = NoPass
    /\ api_call = [d \in Devices |-> "none"]
    /\ overtaken = {}
    /\ unloaded = [done |-> FALSE, session |-> NoSession]

(***************************************************************************)
(* BaliWebSocket (api.py): listeners and the dispatch of notifications     *)
(*                                                                         *)
(* A callback either returns or raises; which of the callbacks called for  *)
(* a message raise is chosen for each message.  delivery.log lists the     *)
(* calls made for the message in the order they were made.                 *)
(***************************************************************************)

\* The topic that listeners are added for; hub.modes.switched arrives too and
\* has no listener.
DispatchTopics == {"hub.item.updated"}

NoDelivery == [topic |-> "", raising |-> {}, log |-> << >>]

\* api.py:249-255
ws_add_listener(event_id, callback) ==
    listeners' = IF event_id \notin DOMAIN listeners
                     THEN DictSet(listeners, event_id, <<callback>>)
                     ELSE [listeners EXCEPT ![event_id] = Append(@, callback)]

RECURSIVE list_remove(_, _)
\* list.remove(x): the first occurrence goes.
list_remove(l, x) ==
    IF l = << >> THEN << >>
    ELSE IF Head(l) = x THEN Tail(l)
    ELSE <<Head(l)>> \o list_remove(Tail(l), x)

\* api.py:257-262
remove_listener(event_id, callback) ==
    listeners' = IF /\ event_id \in DOMAIN listeners
                    /\ \E i \in DOMAIN listeners[event_id] :
                           listeners[event_id][i] = callback
                     THEN [listeners EXCEPT ![event_id] = list_remove(@, callback)]
                     ELSE listeners

\* Variant of call_listeners in which a raising callback ends the loop.
RECURSIVE call_listeners_propagates(_, _)
call_listeners_propagates(callbacks, raising) ==
    IF callbacks = << >> THEN << >>
    ELSE IF Head(callbacks) \in raising
        THEN <<[callback |-> Head(callbacks), raised |-> TRUE]>>
        ELSE <<[callback |-> Head(callbacks), raised |-> FALSE]>>
                 \o call_listeners_propagates(Tail(callbacks), raising)

RECURSIVE call_listeners(_, _)
\* api.py:214-218: the loop over the topic's callbacks; an exception of a
\* callback is caught and logged and the loop goes on.
call_listeners(callbacks, raising) ==
    IF callbacks = << >> THEN << >>
    ELSE <<[callback |-> Head(callbacks),
            raised |-> Head(callbacks) \in raising]>>
             \o call_listeners(Tail(callbacks), raising)

AddListener(event_id, callback) ==
    /\ event_id \in DOMAIN listeners => Len(listeners[event_id]) < MaxListeners
    /\ ws_add_listener(event_id, callback)
    /\ UNCHANGED <<ws, connected, receive_task, pending_responses, calls,
                   last_inbound, delivery>>

RemoveListener(event_id, callback) ==
    /\ remove_listener(event_id, callback)
    /\ UNCHANGED <<ws, connected, receive_task, pending_responses, calls,
                   last_inbound, delivery>>

\* The inbound messages dispatched: every id and topic, one result.
DispatchMessages == {d \in InboundMessages : d.result = "r1"}

\* api.py:184-187, 200-218: the receive loop handles one message.
DispatchMessage(d, raising) ==
    /\ HandleMessage(d)
    /\ raising \subseteq {last_inbound'.invoked[i] : i \in DOMAIN last_inbound'.invoked}
    /\ delivery' = [topic |-> d.msg_subclass, raising |-> raising,
                    log |-> call_listeners(last_inbound'.invoked, raising)]

DispatchSend(method) ==
    /\ SendMessage(method, TRUE)
    /\ UNCHANGED delivery

\* A connected session on which nothing was subscribed yet (api.py:80-83).
InitDispatchSession ==
    /\ ws = "open"
    /\ connected = TRUE
    /\ receive_task = "running"
    /\ pending_responses = EmptyDict
    /\ listeners = EmptyDict
    /\ calls = << >>
    /\ last_inbound = [id |-> 0, invoked |-> << >>]

(***************************************************************************)
(* coordinator observed: position updates that arrive during a refresh     *)
(*                                                                         *)
(* _async_update_data (coordinator.py:173-196) collects the polled items   *)
(* of each device in a local dict across its awaits; push notifications    *)
(* are handled between those awaits.  `overtaken` records the devices      *)
(* whose polled value is already in that dict when a real position update  *)
(* for them is applied to self.data.                                       *)
(***************************************************************************)

\* coordinator.py:60-67: the push changes the reported position of m.dev.
AppliesPosition(m) ==
    /\ m.msg_subclass = "hub.item.updated"
    /\ m.name = "dimmer"
    /\ has_data
    /\ m.dev \in DOMAIN data

RacePush(m) ==
    /\ PushUpdate(m)
    /\ overtaken' = IF /\ AppliesPosition(m)
                       /\ refresh.pc = "items"
                       /\ m.dev \in DOMAIN refresh.acc
                        THEN overtaken \cup {m.dev}
                        ELSE overtaken

RaceRefreshStart ==
    /\ RefreshStart
    /\ overtaken' = {}

RaceRefreshDevices(list) ==
    /\ RefreshDevices(list)
    /\ overtaken' = {}

RaceRefreshItems(items) ==
    /\ RefreshItems(items)
    /\ overtaken' = IF refresh.idx = Len(devices) THEN {} ELSE overtaken

RaceRefreshFail ==
    /\ RefreshFail
    /\ overtaken' = {}

(***************************************************************************)
(* The config entry (__init__.py): a set-up entry and its unloading        *)
(*                                                                         *)
(* async_setup_entry authenticates, connects the session and constructs    *)
(* the coordinator, whose constructor registers its update listener        *)
(* (coordinator.py:48-49); the first refresh and the platforms follow.     *)
(* async_unload_entry unloads the platforms and disconnects the session.   *)
(* Timers scheduled with async_call_later belong to the event loop and     *)
(* keep running whatever happens to the entry.                             *)
(***************************************************************************)

\* The coordinator's listener, _handle_websocket_update.
CoordinatorCallback == "cb1"

\* __init__.py:29-47: the client after connect_websocket and the
\* coordinator's construction.
InitApiLoaded ==
    /\ auth_data = AuthData(1, 1, 1, 1)
    /\ websocket = add_update_listeners(
                       [NewSession(1) EXCEPT !.ws = "open", !.connected = TRUE,
                                             !.receive_task = "running"],
                       <<CoordinatorCallback>>)
    /\ update_callbacks = <<CoordinatorCallback>>
    /\ sessions = 1
    /\ op = OpIdle
    /\ sent = << >>
    /\ last_push = NoPush
    /\ lost = [gen |-> 0, callbacks |-> {}]

\* api.py:584-588 disconnect_websocket.
disconnect_websocket ==
    /\ websocket' = NoSession
    /\ unloaded' = [done |-> TRUE,
                    session |-> IF websocket.exists
                                    THEN session_disconnect(websocket)
                                    ELSE NoSession]

\* __init__.py:63-71 async_unload_entry.
async_unload_entry(unload_ok) ==
    /\ ~unloaded.done
    /\ IF unload_ok
           THEN disconnect_websocket
           ELSE UNCHANGED <<websocket, unloaded>>
    /\ UNCHANGED <<coordVars, cmd>>

\* A cover command of a loaded entry (the entities go with the platforms).
EntryCommand(d, p) ==
    /\ ~unloaded.done
    /\ CoverSetPosition(d, p)
    /\ UNCHANGED <<websocket, unloaded>>

\* api.py:211-218: a push notification reaches the coordinator through the
\* listeners of a live session.
EntryPush(m) ==
    /\ session_connected(websocket)
    /\ websocket.receive_task = "running"
    /\ m.msg_subclass \in Topics
    /\ CoordinatorCallback \in {websocket.listeners[m.msg_subclass][i] :
                                   i \in DOMAIN websocket.listeners[m.msg_subclass]}
    /\ PushUpdate(m)
    /\ UNCHANGED <<websocket, unloaded>>

\* The refreshes of a loaded entry.
EntryRefresh ==
    /\ ~unloaded.done
    /\ \/ RefreshStart
       \/ \E list \in {<<"d1", "d2">>} : RefreshDevices(list)
       \/ \E items \in DeviceItems : RefreshItems(items)
       \/ RefreshFail
    /\ UNCHANGED <<websocket, unloaded>>

InitDispatch == delivery = NoDelivery

(***************************************************************************)
(* Specifications                                                          *)
(***************************************************************************)

Init ==
    /\ InitCoord
    /\ InitObs
    /\ InitRpc
    /\ InitApi
    /\ InitAuth
    /\ InitTasks
    /\ InitConn
    /\ InitDispatch
    /\ InitWatch

\* What the coordinator's steps leave alone.
coordFrame == <<rpcVars, apiVars, auth_calls, taskVars, connVars,
      dispatchVars, watchVars>>

NextCoord ==
    \/ \E d \in Devices, p \in Positions :
           CoverSetPosition(d, p) /\ UNCHANGED <<obsVars, coordFrame>>
    \/ \E m \in PushMessages : PushUpdate(m) /\ UNCHANGED <<obsVars, coordFrame>>
    \/ \E h \in TimerIds : TimerFire(h) /\ UNCHANGED <<obsVars, coordFrame>>
    \/ Tick /\ UNCHANGED <<obsVars, coordFrame>>
    \/ RefreshStart /\ UNCHANGED <<obsVars, coordFrame>>
    \/ \E list \in DeviceLists : RefreshDevices(list) /\ UNCHANGED <<obsVars, coordFrame>>
    \/ \E items \in DeviceItems : RefreshItems(items) /\ UNCHANGED <<obsVars, coordFrame>>
    \/ RefreshFail /\ UNCHANGED <<obsVars, coordFrame>>

SpecCoord == Init /\ [][NextCoord]_vars

NextCoordObs ==
    \/ \E d \in Devices, p \in Positions :
           ObsCommand(d, p) /\ UNCHANGED coordFrame
    \/ \E m \in PushMessages : ObsPush(m) /\ UNCHANGED coordFrame
    \/ \E list \in {<<"d1">>} : ObsRefreshDevices(list) /\ UNCHANGED coordFrame
    \/ \E items \in DeviceItems : ObsRefreshItems(items) /\ UNCHANGED coordFrame
    \/ \E h \in TimerIds : TimerFire(h) /\ UNCHANGED <<obsVars, coordFrame>>
    \/ Tick /\ UNCHANGED <<obsVars, coordFrame>>
    \/ RefreshStart /\ UNCHANGED <<obsVars, coordFrame>>
    \/ RefreshFail /\ UNCHANGED <<obsVars, coordFrame>>

SpecCoordObs == Init /\ [][NextCoordObs]_vars

rpcFrame == <<coordVars, cmd, obsVars, apiVars, auth_calls, taskVars, connVars,
      dispatchVars, watchVars>>

NextRpc ==
    \/ \E method \in Methods, send_ok \in BOOLEAN :
           SendMessage(method, send_ok) /\ UNCHANGED rpcFrame
    \/ \E d \in InboundMessages : HandleMessage(d) /\ UNCHANGED rpcFrame
    \/ RpcTick /\ UNCHANGED rpcFrame
    \/ \E c \in 1..MaxCalls : WaitForTimeout(c) /\ UNCHANGED rpcFrame
    \/ \E c \in 1..MaxCalls : TimeoutResume(c) /\ UNCHANGED rpcFrame
    \/ Disconnect /\ UNCHANGED rpcFrame
    \/ TransportError /\ UNCHANGED rpcFrame

InitConnected ==
    /\ InitCoord
    /\ InitObs
    /\ InitRpcConnected
    /\ InitApi
    /\ InitAuth
    /\ InitTasks
    /\ InitConn
    /\ InitDispatch
    /\ InitWatch

SpecRpc == InitConnected /\ [][NextRpc]_vars

\* The session from its construction: never connected, connecting,
\* connected, disconnected, or with its transport lost.
NextSession ==
    \/ SessionOpen /\ UNCHANGED rpcFrame
    \/ SessionEstablished /\ UNCHANGED rpcFrame
    \/ \E method \in Methods, send_ok \in BOOLEAN :
           SendMessage(method, send_ok) /\ UNCHANGED rpcFrame
    \/ \E d \in InboundMessages : HandleMessage(d) /\ UNCHANGED rpcFrame
    \/ RpcTick /\ UNCHANGED rpcFrame
    \/ \E c \in 1..MaxCalls : WaitForTimeout(c) /\ UNCHANGED rpcFrame
    \/ \E c \in 1..MaxCalls : TimeoutResume(c) /\ UNCHANGED rpcFrame
    \/ Disconnect /\ UNCHANGED rpcFrame
    \/ TransportError /\ UNCHANGED rpcFrame

SpecSession == Init /\ [][NextSession]_vars

\* The connected session with every kind of inbound frame.
NextReceive ==
    \/ \E frame \in OtherFrames : ReceiveFrame(frame) /\ UNCHANGED rpcFrame
    \/ \E method \in Methods, send_ok \in BOOLEAN :
           SendMessage(method, send_ok) /\ UNCHANGED rpcFrame
    \/ \E d \in InboundMessages : HandleMessage(d) /\ UNCHANGED rpcFrame
    \/ RpcTick /\ UNCHANGED rpcFrame
    \/ \E c \in 1..MaxCalls : WaitForTimeout(c) /\ UNCHANGED rpcFrame
    \/ \E c \in 1..MaxCalls : TimeoutResume(c) /\ UNCHANGED rpcFrame
    \/ Disconnect /\ UNCHANGED rpcFrame
    \/ TransportError /\ UNCHANGED rpcFrame

SpecReceive == InitConnected /\ [][NextReceive]_vars

apiFrame == <<coordVars, cmd, obsVars, rpcVars, auth_calls, taskVars, connVars,
      dispatchVars, watchVars>>

\* Device commands: set_device_position and what it runs.
\* The session with its receive loop under the scheduling of the event loop:
\* time passes, a due wait_for timeout fires, and the task it wakes runs.
FairnessReceive ==
    /\ WF_vars(RpcTick /\ UNCHANGED rpcFrame)
    /\ \A c \in 1..MaxCalls :
           /\ WF_vars(WaitForTimeout(c) /\ UNCHANGED rpcFrame)
           /\ WF_vars(TimeoutResume(c) /\ UNCHANGED rpcFrame)

SpecReceiveFair == InitConnected /\ [][NextReceive]_vars /\ FairnessReceive

NextApi ==
    \/ \E d \in ApiDevices, p \in ApiPositions :
           StartSetPosition(d, p) /\ UNCHANGED apiFrame
    \/ EnsureConnected /\ UNCHANGED apiFrame
    \/ \E ok \in BOOLEAN : WsConnect(ok) /\ UNCHANGED apiFrame
    \/ LoginResponse /\ UNCHANGED apiFrame
    \/ ConnectCallFails /\ UNCHANGED apiFrame
    \/ RegisterResponse /\ UNCHANGED apiFrame
    \/ Validate /\ UNCHANGED apiFrame
    \/ \E items \in ItemLists : ItemsResponse(items) /\ UNCHANGED apiFrame
    \/ SetResponse /\ UNCHANGED apiFrame
    \/ CallFails /\ UNCHANGED apiFrame
    \/ TransportDrop /\ UNCHANGED apiFrame

\* Reconnection and update listeners: ensure_websocket_connected,
\* add_update_listener and the push notifications.
NextApiPush ==
    \/ StartEnsure /\ UNCHANGED apiFrame
    \/ EnsureConnected /\ UNCHANGED apiFrame
    \/ \E ok \in BOOLEAN : WsConnect(ok) /\ UNCHANGED apiFrame
    \/ LoginResponse /\ UNCHANGED apiFrame
    \/ ConnectCallFails /\ UNCHANGED apiFrame
    \/ RegisterResponse /\ UNCHANGED apiFrame
    \/ TransportDrop /\ UNCHANGED apiFrame
    \/ \E t \in Topics : PushArrives(t) /\ UNCHANGED apiFrame
    \/ \E cb \in Callbacks : AddUpdateListener(cb) /\ UNCHANGED apiFrame

InitClient ==
    /\ InitCoord
    /\ InitObs
    /\ InitRpc
    /\ InitApiClient
    /\ InitAuth
    /\ InitTasks
    /\ InitConn
    /\ InitDispatch
    /\ InitWatch

SpecApi == InitClient /\ [][NextApi]_vars

SpecApiPush == InitClient /\ [][NextApiPush]_vars

\* The device list: get_devices and what it runs.
NextApiList ==
    \/ StartGetDevices /\ UNCHANGED apiFrame
    \/ EnsureConnected /\ UNCHANGED apiFrame
    \/ \E ok \in BOOLEAN : WsConnect(ok) /\ UNCHANGED apiFrame
    \/ LoginResponse /\ UNCHANGED apiFrame
    \/ ConnectCallFails /\ UNCHANGED apiFrame
    \/ RegisterResponse /\ UNCHANGED apiFrame
    \/ ListDevices /\ UNCHANGED apiFrame
    \/ \E list \in HubDeviceLists : DevicesResponse(list) /\ UNCHANGED apiFrame
    \/ CallFails /\ UNCHANGED apiFrame
    \/ TransportDrop /\ UNCHANGED apiFrame

SpecApiList == InitClient /\ [][NextApiList]_vars

taskFrame == <<coordVars, cmd, obsVars, rpcVars, apiVars, auth_calls, connVars,
      dispatchVars, watchVars>>

NextTasks ==
    \/ \E t \in Tasks : TaskEnsure(t) /\ UNCHANGED taskFrame
    \/ \E t \in Tasks : TaskDisconnected(t) /\ UNCHANGED taskFrame
    \/ \E t \in Tasks, ok \in BOOLEAN : TaskWsConnect(t, ok) /\ UNCHANGED taskFrame
    \/ \E t \in Tasks : TaskLoginResponse(t) /\ UNCHANGED taskFrame
    \/ \E t \in Tasks : TaskRegisterResponse(t) /\ UNCHANGED taskFrame
    \/ \E t \in Tasks : TaskCallFails(t) /\ UNCHANGED taskFrame
    \/ \E i \in 1..MaxSessions : ObjectDrop(i) /\ UNCHANGED taskFrame

SpecTasks == Init /\ [][NextTasks]_vars

connFrame == <<coordVars, cmd, obsVars, rpcVars, apiVars, auth_calls, taskVars,
      dispatchVars, watchVars>>

NextConn ==
    \/ \E max_retries \in RetryLimits, retry_delay \in BaseDelays :
           ConnectStart(max_retries, retry_delay) /\ UNCHANGED connFrame
    \/ \E ok \in BOOLEAN : ConnOpen(ok) /\ UNCHANGED connFrame
    \/ ConnLoginAnswered /\ UNCHANGED connFrame
    \/ ConnRegisterSend /\ UNCHANGED connFrame
    \/ ConnRegisterAnswered /\ UNCHANGED connFrame
    \/ ConnCallTimeout /\ UNCHANGED connFrame
    \/ ConnWake /\ UNCHANGED connFrame
    \/ ConnTransportDrop /\ UNCHANGED connFrame

SpecConn == Init /\ [][NextConn]_vars

authFrame == <<coordVars, cmd, obsVars, rpcVars, websocket, update_callbacks,
               op, sent, sessions, last_push, lost, taskVars, connVars,
               dispatchVars, watchVars>>

passFrame == <<obsVars, rpcVars, apiVars, auth_calls, taskVars, connVars,
               delivery, api_call, overtaken, unloaded>>

NextCoordPass ==
    \/ \E d \in Devices, p \in {40} :
           CoverSetPosition(d, p) /\ passed' = NoPass /\ UNCHANGED passFrame
    \/ \E m \in PushMessages : PassPush(m) /\ UNCHANGED passFrame
    \/ \E h \in TimerIds : TimerFire(h) /\ passed' = NoPass /\ UNCHANGED passFrame
    \/ Tick /\ passed' = NoPass /\ UNCHANGED passFrame
    \/ RefreshStart /\ passed' = NoPass /\ UNCHANGED passFrame
    \/ \E list \in {<<"d1", "d2">>} :
           RefreshDevices(list) /\ passed' = NoPass /\ UNCHANGED passFrame
    \/ \E items \in DeviceItems :
           RefreshItems(items) /\ passed' = NoPass /\ UNCHANGED passFrame
    \/ RefreshFail /\ passed' = NoPass /\ UNCHANGED passFrame

SpecCoordPass == Init /\ [][NextCoordPass]_vars

raceFrame == <<obsVars, rpcVars, apiVars, auth_calls, taskVars, connVars,
               delivery, passed, api_call, unloaded>>

RaceMessages == {m \in ItemMessages : m.dev \in Devices}

NextCoordRace ==
    \/ \E m \in RaceMessages :
           RacePush(m) /\ UNCHANGED raceFrame
    \/ RaceRefreshStart /\ UNCHANGED raceFrame
    \/ \E list \in {<<"d1", "d2", "d3">>} :
           RaceRefreshDevices(list) /\ UNCHANGED raceFrame
    \/ \E items \in DeviceItems :
           RaceRefreshItems(items) /\ UNCHANGED raceFrame
    \/ RaceRefreshFail /\ UNCHANGED raceFrame

SpecCoordRace == Init /\ [][NextCoordRace]_vars

entryFrame == <<obsVars, rpcVars, auth_data, update_callbacks, op, sent, sessions,
                last_push, lost, auth_calls, taskVars, connVars, delivery,
                passed, api_call, overtaken>>

InitLoaded ==
    /\ InitCoord
    /\ InitObs
    /\ InitRpc
    /\ InitApiLoaded
    /\ InitAuth
    /\ InitTasks
    /\ InitConn
    /\ InitDispatch
    /\ InitWatch

NextEntry ==
    \/ \E d \in Devices, p \in {20, 40} :
           EntryCommand(d, p) /\ UNCHANGED entryFrame
    \/ \E m \in PushMessages : EntryPush(m) /\ UNCHANGED entryFrame
    \/ EntryRefresh /\ UNCHANGED entryFrame
    \/ \E h \in TimerIds :
           TimerFire(h) /\ UNCHANGED <<websocket, unloaded, entryFrame>>
    \/ Tick /\ UNCHANGED <<websocket, unloaded, entryFrame>>
    \/ \E unload_ok \in BOOLEAN :
           async_unload_entry(unload_ok) /\ UNCHANGED entryFrame

SpecEntry == InitLoaded /\ [][NextEntry]_vars

coverFrame == <<obsVars, rpcVars, apiVars, auth_calls, taskVars, connVars,
                delivery, passed, overtaken, unloaded>>

CallOutcomes == {"ok", "value_error", "reconnect_failed", "no_dimmer",
                 "call_timeout"}

NextCover ==
    \/ \E d \in Devices, p \in CoverPositions :
           CoverCommand(d, p) /\ UNCHANGED coverFrame
    \/ \E d \in Devices, outcome \in CallOutcomes :
           CoverCallEnds(d, outcome) /\ UNCHANGED coverFrame
    \/ \E m \in PushMessages :
           PushUpdate(m) /\ UNCHANGED <<api_call, coverFrame>>
    \/ \E h \in TimerIds : TimerFire(h) /\ UNCHANGED <<api_call, coverFrame>>
    \/ Tick /\ UNCHANGED <<api_call, coverFrame>>
    \/ RefreshStart /\ UNCHANGED <<api_call, coverFrame>>
    \/ \E list \in {<<"d1">>} :
           RefreshDevices(list) /\ UNCHANGED <<api_call, coverFrame>>
    \/ \E items \in DeviceItems :
           RefreshItems(items) /\ UNCHANGED <<api_call, coverFrame>>
    \/ RefreshFail /\ UNCHANGED <<api_call, coverFrame>>

SpecCover == Init /\ [][NextCover]_vars

dispatchFrame == <<coordVars, cmd, obsVars, apiVars, auth_calls, taskVars,
                   connVars, watchVars>>

NextDispatch ==
    \/ \E t \in DispatchTopics, cb \in Callbacks :
           AddListener(t, cb) /\ UNCHANGED dispatchFrame
    \/ \E t \in DispatchTopics, cb \in Callbacks :
           RemoveListener(t, cb) /\ UNCHANGED dispatchFrame
    \/ \E method \in Methods : DispatchSend(method) /\ UNCHANGED dispatchFrame
    \/ \E d \in DispatchMessages, raising \in SUBSET Callbacks :
           DispatchMessage(d, raising) /\ UNCHANGED dispatchFrame

InitDispatching ==
    /\ InitCoord
    /\ InitObs
    /\ InitDispatchSession
    /\ InitApi
    /\ InitAuth
    /\ InitTasks
    /\ InitConn
    /\ InitDispatch
    /\ InitWatch

SpecDispatch == InitDispatching /\ [][NextDispatch]_vars

NextAuth ==
    \/ \E c \in AuthCallers : AuthStart(c) /\ UNCHANGED authFrame
    \/ \E c \in AuthCallers, v \in Versions, outcome \in IdentityOutcomes :
           AuthIdentity(c, v, outcome) /\ UNCHANGED authFrame
    \/ \E c \in AuthCallers, v \in Versions, outcome \in SessionOutcomes :
           AuthSession(c, v, outcome) /\ UNCHANGED authFrame
    \/ \E c \in AuthCallers, v \in Versions, outcome \in DevicesOutcomes :
           AuthDevices(c, v, outcome) /\ UNCHANGED authFrame
    \/ \E c \in AuthCallers, v \in Versions, outcome \in HubOutcomes :
           AuthHub(c, v, outcome) /\ UNCHANGED authFrame

SpecAuth == Init /\ [][NextAuth]_vars

(***************************************************************************)
(* Claims on command reconciliation                                        *)
(***************************************************************************)

TimersOf(tm, d) == {h \in DOMAIN tm : tm[h].dev = d}

C1_Confirm ==
    \A m \in ItemMessages :
        (/\ m.name = "dimmer" /\ has_data /\ m.dev \in DOMAIN data
         /\ PushUpdate(m))
        => /\ data'[m.dev].position = m.value
           /\ m.dev \notin DOMAIN pending_positions'
           /\ m.dev \notin DOMAIN pending_timeouts'
           /\ TimersOf(timers', m.dev) = {}

C1_NoLateApply ==
    \A d \in DOMAIN data :
        (/\ cmd[d].state = "confirmed"
         /\ \/ \E h \in TimerIds : TimerFire(h)
            \/ \E m \in DeviceMessages : PushUpdate(m))
        => data'[d].position = data[d].position

\* C1: a real position (dimmer) update with value v for a device of the
\* reported state sets its reported position to v, removes its pending
\* command and cancels its timeout (no timer of the device stays scheduled);
\* while the latest command of a device is resolved that way, no timer and
\* no device notification changes the device's reported position.
C1_RealUpdateWins == [][C1_Confirm /\ C1_NoLateApply]_vars

\* A command with target 20 was resolved by a real update with value 40.
C1_Witness ==
    /\ "d1" \in DOMAIN data
    /\ cmd["d1"] = [state |-> "confirmed", target |-> 20]
    /\ data["d1"].position = 40
    /\ "d1" \notin DOMAIN pending_positions

C2_Timeout ==
    \A h \in DOMAIN timers :
        (/\ timers[h].dev \in DOMAIN data
         /\ cmd[timers[h].dev].state = "pending"
         /\ TimerFire(h))
        => LET d == timers[h].dev
           IN  /\ timers[h].remaining = 0
               /\ data'[d].position = cmd[d].target
               /\ d \notin DOMAIN pending_positions'
               /\ d \notin DOMAIN pending_timeouts'
               /\ TimersOf(timers', d) = {}
               /\ cmd'[d] = [state |-> "timeout", target |-> cmd[d].target]

\* C2: when the timeout of a device's still pending command fires (no real
\* update, no unreachable notification and no newer command resolved it),
\* the reported position becomes the commanded target and the device is
\* Idle again: no pending command and no timeout handle remain for it.
C2_TimeoutAppliesTarget == [][C2_Timeout]_vars

\* The command with target 40 of d1 ran into its timeout.
C2_Witness ==
    /\ "d1" \in DOMAIN data
    /\ cmd["d1"] = [state |-> "timeout", target |-> 40]
    /\ data["d1"].position = 40
    /\ "d1" \notin DOMAIN pending_positions

C3_OnePending ==
    \A d \in Devices :
        /\ d \in DOMAIN pending_positions <=> cmd[d].state = "pending"
        /\ d \in DOMAIN pending_positions <=> d \in DOMAIN pending_timeouts
        /\ d \in DOMAIN pending_positions
               => /\ pending_positions[d] = cmd[d].target
                  /\ TimersOf(timers, d) = {pending_timeouts[d]}
                  /\ timers[pending_timeouts[d]].target = cmd[d].target
        /\ d \notin DOMAIN pending_positions => TimersOf(timers, d) = {}

C3_Command ==
    \A d \in Devices, p \in Positions :
        CoverSetPosition(d, p)
        => /\ pending_positions'[d] = p
           /\ timers'[pending_timeouts'[d]].remaining = PendingTimeout

C3_ApplyLatest ==
    \A d \in DOMAIN data :
        (cmd[d].state = "pending" /\ cmd'[d].state \in {"timeout", "unreachable"})
        => data'[d].position = cmd[d].target

\* C3: a device has a pending command exactly while its latest command is
\* unresolved, holding that latest command's target, with exactly one
\* scheduled timer (the one its handle refers to, started at 30 units by the
\* latest command); a resolution by timeout or unreachable notification
\* writes the latest command's target.
C3_ReplaceDontStack ==
    [](C3_OnePending) /\ [][C3_Command /\ C3_ApplyLatest]_vars

\* d1's command was replaced while its first timer (handle 1) was scheduled:
\* the only live timer is the second one, for target 80; d2 has never been
\* commanded.
C3_Witness ==
    /\ cmd["d1"] = [state |-> "pending", target |-> 80]
    /\ cmd["d2"].state = "none"
    /\ DOMAIN pending_positions = {"d1"}
    /\ pending_positions["d1"] = 80
    /\ DOMAIN timers = {2}
    /\ pending_timeouts["d1"] = 2

\* C4: the reported position of every device is the last real value written
\* for it (by a push update or a refresh) or the target of a command issued
\* since that value.
C4_ReportedIsRealOrLiveTarget ==
    \A d \in DOMAIN data :
        \/ data[d].position = last_real[d]
        \/ data[d].position \in live_targets[d]

(***************************************************************************)
(* Claims on the RPC session                                               *)
(***************************************************************************)

C7_Slots ==
    /\ \A a, b \in 1..Len(calls) :
           (a # b /\ calls[a].id # 0 /\ calls[b].id # 0) => calls[a].id # calls[b].id
    /\ \A i \in DOMAIN pending_responses :
           /\ pending_responses[i] \in 1..Len(calls)
           /\ calls[pending_responses[i]].id = i

C7_Resolve ==
    \A d \in InboundMessages :
        (d.id \in DOMAIN pending_responses /\ HandleMessage(d))
        => LET c == pending_responses[d.id]
           IN  /\ pending_responses' = DictDel(pending_responses, d.id)
               /\ Awaiting(c) => /\ calls'[c].outcome = "returned"
                                 /\ calls'[c].value = d.result
               /\ \A k \in 1..Len(calls) : k # c => calls'[k] = calls[k]
               /\ Len(calls') = Len(calls)

C7_Once ==
    \A c \in 1..Len(calls) :
        /\ calls[c].outcome # "waiting" => calls'[c].outcome = calls[c].outcome
        /\ calls[c].future \in {"done", "cancelled"}
               => /\ calls'[c].future = calls[c].future
                  /\ calls'[c].value = calls[c].value

\* C7: correlation ids of calls are pairwise distinct and every slot refers to
\* the call of its id; an inbound message with the id of a registered slot
\* completes the waiting call of that id with the message's result, removes
\* that slot only and leaves every other call and slot as it was; a finished
\* call and a resolved future never change again.
C7_Correlation == [](C7_Slots) /\ [][C7_Resolve /\ C7_Once]_vars

\* Two calls are in flight; the response to the second one arrived first.
C7_Witness ==
    /\ Len(calls) >= 2
    /\ calls[1].outcome = "waiting"
    /\ calls[2].outcome = "returned"
    /\ calls[2].value = "r2"
    /\ DOMAIN pending_responses = {calls[1].id}
    /\ last_inbound.id = calls[2].id

TimedOut(i) == \E c \in 1..Len(calls) :
                   calls[c].id = i /\ calls[c].outcome = "timeout_error"

C8_Timeout ==
    \A c \in 1..Len(calls) :
        TimeoutResume(c)
        => /\ calls[c].remaining = 0
           /\ calls'[c].outcome = "timeout_error"
           /\ calls[c].id \notin DOMAIN pending_responses'
           /\ \A i \in DOMAIN pending_responses :
                  i # calls[c].id => /\ i \in DOMAIN pending_responses'
                                     /\ pending_responses'[i] = pending_responses[i]

C8_Late ==
    \A d \in InboundMessages :
        (d.id # 0 /\ TimedOut(d.id) /\ HandleMessage(d))
        => /\ calls' = calls
           /\ pending_responses' = pending_responses
           /\ receive_task' = "running"

C8_NoSlotOfTimedOut ==
    \A i \in DOMAIN pending_responses : ~TimedOut(i)

\* C8: a call whose 30 units pass without a response fails with the timeout
\* ConnectionError and its slot is removed (the other slots stay); no slot of
\* a timed-out call exists, and a response carrying the id of a timed-out
\* call changes no call and no slot and leaves the receive loop running.
C8_TimeoutThenLate ==
    [](C8_NoSlotOfTimedOut) /\ [][C8_Timeout /\ C8_Late]_vars

\* The first call timed out and its response arrived afterwards, while a
\* second call is waiting.
C8_Witness ==
    /\ Len(calls) >= 2
    /\ calls[1].outcome = "timeout_error"
    /\ calls[2].outcome = "waiting"
    /\ last_inbound.id = calls[1].id
    /\ receive_task = "running"
    /\ DOMAIN pending_responses = {calls[2].id}

(***************************************************************************)
(* Claims on device commands and reconnection                              *)
(***************************************************************************)

InRange(position) == 0 <= position /\ position <= 100

\* C5: while set_device_position runs with a position outside 0..100 it has
\* sent no message on the transport, and it ends with the validation error.
C5_OutOfRangeSendsNothing ==
    (op.name = "set_device_position" /\ ~InRange(op.position))
    => /\ sent = << >>
       /\ op.pc = "done" => op.error = "value_error"

IsValueSet(m) == m.method = "hub.item.value.set"

ValueSets == SelectSeq(sent, IsValueSet)

C6_Sent ==
    op.name = "set_device_position"
    => /\ Len(ValueSets) <= 1
       /\ (op.pc = "done" /\ op.error = "ok")
              => /\ InRange(op.position)
                 /\ op.dimmer_id # ""
                 /\ ValueSets = << Message("hub.item.value.set", op.dimmer_id,
                                           op.position) >>
       /\ (op.pc = "done" /\ op.listed /\ op.dimmer_id = "")
              => /\ op.error = "connection_error"
                 /\ ValueSets = << >>

C6_Resolve ==
    \A items \in ItemLists :
        ItemsResponse(items)
        => LET own == {i \in DOMAIN items : /\ items[i].deviceId = op.device_id
                                            /\ items[i].name = "dimmer"}
           IN  /\ InRange(op.position)
               /\ own = {} => /\ op'.dimmer_id = ""
                              /\ op'.pc = "done"
                              /\ op'.error = "connection_error"
                              /\ sent' = sent
               /\ own # {} => \E i \in own : op'.dimmer_id = items[i]._id
               /\ op'.dimmer_id # ""
                      => sent' = Append(sent, Message("hub.item.value.set",
                                                      op'.dimmer_id, op.position))

\* C6: set_device_position sends at most one hub.item.value.set; the id it
\* resolves from the items list is the _id of a dimmer item of the requested
\* device, and the value-set it then sends carries that id and the requested
\* position; a successful operation has sent exactly that one value-set, with
\* a position in 0..100; when the list has no dimmer item of the device (or
\* one without _id) nothing is sent and the operation ends with the
\* connection error.
C6_OneValueSetToOwnDimmer == [](C6_Sent) /\ [][C6_Resolve]_vars

\* d1 was set to 100 through its dimmer item i1, on a session the operation
\* had to open first.
C6_Witness ==
    /\ op.name = "set_device_position"
    /\ op.pc = "done"
    /\ op.error = "ok"
    /\ op.device_id = "d1"
    /\ op.position = 100
    /\ ValueSets = << Message("hub.item.value.set", "i1", 100) >>
    /\ Len(sent) = 4

Registered(seq) == {seq[i] : i \in DOMAIN seq}

C9_Registry ==
    session_connected(websocket)
    => \A t \in Topics :
           Registered(update_callbacks) \subseteq Registered(websocket.listeners[t])

C9_Delivered ==
    \A t \in Topics :
        (/\ PushArrives(t)
         /\ session_connected(websocket)
         /\ lost.gen > 0
         /\ websocket.gen > lost.gen)
        => /\ last_push'.topic = t
           /\ lost.callbacks \subseteq Registered(last_push'.invoked)

C9_Durable ==
    Registered(update_callbacks) \subseteq Registered(update_callbacks')

\* C9: the registry of update callbacks never loses a callback; a connected
\* session has every callback of the registry on both topics; and a push
\* notification of either topic that arrives on a connected session created
\* after a transport loss invokes every callback that was registered when the
\* transport was lost.
C9_SubscriptionsSurvive ==
    [](C9_Registry) /\ [][C9_Delivered /\ C9_Durable]_vars

\* cb1 was registered on the first session, the transport was lost,
\* ensure_websocket_connected succeeded with a second session, and a
\* hub.device.updated notification on it was delivered to cb1.
C9_Witness ==
    /\ lost.gen = 1
    /\ "cb1" \in lost.callbacks
    /\ websocket.exists
    /\ websocket.gen = 2
    /\ session_connected(websocket)
    /\ op.name = "ensure_websocket_connected"
    /\ op.pc = "done"
    /\ op.error = "ok"
    /\ last_push.topic = "hub.device.updated"
    /\ "cb1" \in Registered(last_push.invoked)

(***************************************************************************)
(* Claims on authentication                                                *)
(***************************************************************************)

C10_Whole ==
    auth_data.present
    => /\ auth_data.identity_token \in Versions
       /\ auth_data.identity_signature = auth_data.identity_token
       /\ auth_data.server_account = auth_data.identity_token
       /\ auth_data.account_id = auth_data.identity_token
       /\ auth_data.session_token \in Versions
       /\ auth_data.device_id \in Versions
       /\ auth_data.server_relay \in Versions

C10_OnlyAtEnd ==
    auth_data' # auth_data
    => \E c \in AuthCallers :
           /\ auth_calls[c].pc = "hub"
           /\ auth_calls'[c].pc = "done"
           /\ auth_calls'[c].error = ""
           /\ \A k \in AuthCallers \ {c} : auth_calls'[k] = auth_calls[k]
           /\ \E v \in Versions :
                  auth_data' = AuthData(auth_calls[c].identity,
                                        auth_calls[c].session_token,
                                        auth_calls[c].device, v)

C10_FailureWritesNothing ==
    \A c \in AuthCallers :
        (/\ auth_calls[c].pc # "done"
         /\ auth_calls'[c].pc = "done"
         /\ auth_calls'[c].error # "")
        => auth_data' = auth_data

\* C10: the bundle changes only in the step in which a call's fourth request
\* succeeds, and then all its fields are the values that this call received;
\* a step in which a call fails leaves the bundle as it was; a bundle that is
\* present has all seven fields.
C10_NoPartialBundle ==
    [](C10_Whole) /\ [][C10_OnlyAtEnd /\ C10_FailureWritesNothing]_vars

\* One call has completed its four steps and built the bundle from its own
\* values; the other call's identity response lacked the Identity field, so
\* it failed with the authentication error.
C10_Witness ==
    /\ auth_calls["a1"].pc = "done"
    /\ auth_calls["a1"].error = "auth_error"
    /\ auth_calls["a1"].reason = "no_identity"
    /\ auth_calls["a2"].pc = "done"
    /\ auth_calls["a2"].error = ""
    /\ auth_data = AuthData(1, 2, 1, 2)

(***************************************************************************)
(* Claims on the device list                                               *)
(***************************************************************************)

\* r holds the entries of list selected by f, in the order of list.
SubsequenceBy(r, list, f) ==
    /\ \A i, j \in DOMAIN r : i < j => f[i] < f[j]
    /\ \A i \in DOMAIN r : /\ r[i].device_id = list[f[i]]._id
                           /\ r[i].name = list[f[i]].name
                           /\ r[i].category = list[f[i]].category

C11_Filter ==
    \A list \in HubDeviceLists :
        DevicesResponse(list)
        => LET r == op'.devices
               wc == {i \in DOMAIN list : list[i].category = "window_cov"}
           IN  /\ op'.pc = "done"
               /\ op'.error = "ok"
               /\ Len(r) = Cardinality(wc)
               /\ \E f \in [DOMAIN r -> wc] : SubsequenceBy(r, list, f)

C11_CallWhenConnected ==
    (ListDevices /\ sent' # sent)
    => /\ session_connected(websocket)
       /\ sent' = Append(sent, Message("hub.devices.list", "", None))

IsDevicesList(m) == m.method = "hub.devices.list"

C11_Sent ==
    (op.name = "get_devices" /\ op.pc = "devices_wait")
    => /\ websocket.exists
       /\ websocket.connected
       /\ Len(SelectSeq(sent, IsDevicesList)) = 1

\* C11: the list get_devices returns holds exactly the window_cov entries of
\* the hub's list, each once and in the hub's order; hub.devices.list is sent
\* only on a session that reports connected, and once.
C11_WindowCoveringsInOrder ==
    [](C11_Sent) /\ [][C11_Filter /\ C11_CallWhenConnected]_vars

\* After a reconnection get_devices returned d1 and d2 from a list that has a
\* switch between them.
C11_Witness ==
    /\ op.name = "get_devices"
    /\ op.pc = "done"
    /\ op.error = "ok"
    /\ op.devices = << BaliDevice("d1", "n1", "window_cov"),
                       BaliDevice("d2", "n2", "window_cov") >>
    /\ Len(sent) = 3
    /\ sessions = 2

(***************************************************************************)
(* Claims on concurrent operations                                         *)
(***************************************************************************)

\* C12: among the sessions the client created at most one has an open
\* transport and at most one has a running receive task.
C12_OneTransportOneLoop ==
    /\ Cardinality({i \in DOMAIN objs : objs[i].ws = "open"}) <= 1
    /\ Cardinality({i \in DOMAIN objs : objs[i].receive_task = "running"}) <= 1

(***************************************************************************)
(* Claims on connect()                                                     *)
(***************************************************************************)

Stage(x) == IF x = "none" THEN 0 ELSE IF x = "sent" THEN 1 ELSE 2

C13_Order ==
    \A i \in DOMAIN attempts :
        LET a == attempts[i]
        IN  /\ a.loop # "none" => a.opened
            /\ a.login # "none" => a.loop # "none"
            /\ a.register # "none" => a.login = "answered"

C13_Connected ==
    /\ reports_connected
           => /\ attempts[conn.ws].login = "answered"
              /\ attempts[conn.ws].register = "answered"
    /\ conn.ws # 0 => conn.ws = Len(attempts)

C13_Forward ==
    \A i \in DOMAIN attempts :
        /\ i \in DOMAIN attempts'
        /\ Stage(attempts'[i].login) >= Stage(attempts[i].login)
        /\ Stage(attempts'[i].register) >= Stage(attempts[i].register)
        /\ Stage(attempts'[i].login) + Stage(attempts'[i].register)
               <= Stage(attempts[i].login) + Stage(attempts[i].register) + 1

\* C13: in every attempt the receive task exists only on an opened
\* transport, login is sent only after the receive task started, register is
\* sent only after login was answered, and each step advances one call by
\* one stage; the session reports connected only on the transport of the
\* latest attempt and only when login and register were answered on it.
C13_AttemptOrder == [](C13_Order /\ C13_Connected) /\ [][C13_Forward]_vars

\* The second attempt completed login and register and the session reports
\* connected; the first attempt had stopped after its login was answered.
C13_Witness ==
    /\ Len(attempts) = 2
    /\ attempts[1].login = "answered"
    /\ attempts[1].register = "none"
    /\ attempts[2].register = "answered"
    /\ reports_connected
    /\ conn.pc = "done"

Succeeded(a) == a.register = "answered"

C18_Attempts ==
    /\ Len(attempts) <= conn.max_retries
    /\ \A i \in DOMAIN attempts : i < Len(attempts) => ~Succeeded(attempts[i])
    /\ \A i \in DOMAIN waits : waits[i] = conn.retry_delay * (2 ^ (i - 1))
    /\ conn.pc = "sleep" => Len(waits) = Len(attempts)
    /\ conn.pc \in {"ws_connect", "login_wait", "register_send", "register_wait"}
           => Len(waits) = conn.attempt
    /\ conn.pc \in {"login_wait", "register_send", "register_wait"}
           => Len(attempts) = conn.attempt + 1

C18_End ==
    conn.pc = "done"
    => /\ conn.error = "ok"
              => /\ Succeeded(attempts[Len(attempts)])
                 /\ Len(waits) = Len(attempts) - 1
       /\ conn.error = "connection_error"
              => /\ Len(attempts) = conn.max_retries
                 /\ \A i \in DOMAIN attempts : ~Succeeded(attempts[i])
                 /\ Len(waits) = IF conn.max_retries = 0 THEN 0
                                 ELSE conn.max_retries - 1

C18_NoWaitAfterEnd ==
    conn.pc = "done" => waits' = waits /\ Len(attempts') = Len(attempts)

\* C18: connect makes at most max_retries attempts and none after a
\* successful one; the i-th wait (from 0) is retry_delay * 2^i and follows
\* failed attempt i; a connect that succeeded at attempt k waited k times, a
\* connect that failed made max_retries attempts and waited max_retries - 1
\* times; nothing is waited or attempted after connect ended.
C18_Backoff == [](C18_Attempts /\ C18_End) /\ [][C18_NoWaitAfterEnd]_vars

\* With max_retries 4 and retry_delay 2 all four attempts failed; the waits
\* were 2, 4 and 8.
C18_Witness ==
    /\ conn.pc = "done"
    /\ conn.error = "connection_error"
    /\ conn.max_retries = 4
    /\ conn.retry_delay = 2
    /\ Len(attempts) = 4
    /\ waits = <<2, 4, 8>>

\* C19: when connect ended with the connection error, it carries the failure
\* of the last attempt, the session is not connected and holds no transport,
\* every transport an attempt opened is closed and no receive task of an
\* attempt is running.
C19_FailedConnectLeavesNothing ==
    (conn.pc = "done" /\ conn.error = "connection_error")
    => /\ ~conn.connected
       /\ ~reports_connected
       /\ conn.ws = 0
       /\ \A i \in DOMAIN attempts :
              /\ attempts[i].failure # ""
              /\ attempts[i].opened => attempts[i].closed
              /\ attempts[i].loop # "running"
       /\ attempts # << >> => conn.carried = attempts[Len(attempts)].failure

\* Three attempts failed, one at the open of the transport, one at login and
\* one at register.
C19_Witness ==
    /\ conn.pc = "done"
    /\ conn.error = "connection_error"
    /\ Len(attempts) = 3
    /\ attempts[1].failure = "open_failed"
    /\ attempts[2].failure = "login_timeout"
    /\ attempts[3].failure = "register_timeout"
    /\ conn.carried = "register_timeout"

(***************************************************************************)
(* Claims on the session's life cycle                                      *)
(***************************************************************************)

Stopped == ~connected /\ receive_task # "running" /\ ws # "open"

C14_Effect ==
    Disconnect
    => /\ connected' = FALSE
       /\ receive_task' # "running"
       /\ ws' # "open"
       /\ UNCHANGED <<pending_responses, listeners, calls>>

C14_Idempotent ==
    (Stopped /\ Disconnect) => UNCHANGED rpcVars

\* C14: disconnect can be taken in every state of the session; after it the
\* session is not connected, its receive task does not run and its transport
\* is not open; on a session already in that state it changes nothing.
C14_DisconnectIdempotent ==
    [](ENABLED Disconnect) /\ [][C14_Effect /\ C14_Idempotent]_vars

\* disconnect stopped a connected session with a call in flight.
C14_Witness ==
    /\ ws = "closed"
    /\ receive_task = "cancelled"
    /\ ~connected
    /\ \E c \in 1..Len(calls) : Awaiting(c)

C17_Refused ==
    \A method \in Methods, send_ok \in BOOLEAN :
        (ws # "open" /\ SendMessage(method, send_ok))
        => /\ pending_responses' = pending_responses
           /\ Len(calls') = Len(calls) + 1
           /\ calls'[Len(calls')].outcome = "not_connected"
           /\ calls'[Len(calls')].id = 0
           /\ calls'[Len(calls')].future = "none"
           /\ calls'[Len(calls')].remaining = 0
           /\ \A c \in 1..Len(calls) : calls'[c] = calls[c]

C17_NoSlot ==
    \A c \in 1..Len(calls) :
        calls[c].outcome = "not_connected"
        => \A i \in DOMAIN pending_responses : pending_responses[i] # c

\* C17: a call made while the transport is not open (never opened, or closed)
\* ends at once as not connected: no identifier is drawn, no message and no
\* future exist for it, the pending table is as before, and no slot ever
\* refers to it.
C17_NoTransportNoCall == [](C17_NoSlot) /\ [][C17_Refused]_vars

\* A call was refused before the transport was opened; the call made after
\* the open is waiting in its slot.
C17_Witness ==
    /\ Len(calls) = 2
    /\ calls[1].outcome = "not_connected"
    /\ calls[2].outcome = "waiting"
    /\ ws = "open"
    /\ DOMAIN pending_responses = {calls[2].id}

(***************************************************************************)
(* Claims on the receive loop                                              *)
(***************************************************************************)

\* C15: a running receive task ends (other than by cancellation) only in a
\* step in which the transport closes.
C15_LoopEndsOnlyWithTransport ==
    [][(receive_task = "running" /\ receive_task' = "ended") => ws' = "closed"]_vars

\* ---------------------------------------------------------------------------
\* C16: device-unreachable notification while Pending
\* ---------------------------------------------------------------------------

C16_Cleared(m) ==
    /\ m.dev \notin DOMAIN pending_positions'
    /\ m.dev \notin DOMAIN pending_timeouts'
    /\ TimersOf(timers', m.dev) = {}
    /\ cmd'[m.dev].state = "unreachable"

C16_Others(m) ==
    /\ \A e \in DOMAIN data \ {m.dev} : data'[e] = data[e]
    /\ \A e \in DOMAIN pending_positions \ {m.dev} :
           /\ e \in DOMAIN pending_positions'
           /\ pending_positions'[e] = pending_positions[e]

C16_Pending ==
    \A m \in DeviceMessages :
        (/\ m.reachable = "false"
         /\ m.dev \in DOMAIN pending_positions
         /\ PushUpdate(m))
        => /\ m.dev \in DOMAIN data
           /\ DOMAIN data' = DOMAIN data
           /\ data'[m.dev] = [data[m.dev] EXCEPT !.position = pending_positions[m.dev]]
           /\ C16_Cleared(m)
           /\ C16_Others(m)

C16_Otherwise ==
    \A m \in DeviceMessages :
        (/\ m.reachable # "false" \/ m.dev \notin DOMAIN pending_positions
         /\ PushUpdate(m))
        => UNCHANGED <<data, pending_positions, pending_timeouts, timers>>

C16_NoTimer ==
    \A d \in Devices : cmd[d].state = "unreachable" => TimersOf(timers, d) = {}

\* C16: an unreachable notification (reachable false) for a device with a
\* pending command makes the commanded target the device's reported position
\* (a pending device is always in the reported state), removes the pending
\* command and its timeout and leaves no timer of the device scheduled; while the
\* command stays resolved that way no timer of the device exists, so the
\* timeout cannot fire for it.  Every other device notification (device not
\* pending, reachable true or absent) changes neither the reported state nor
\* the pending table nor the timers.
C16_UnreachableAppliesTarget ==
    [](C16_NoTimer) /\ [][C16_Pending /\ C16_Otherwise]_vars

\* The command with target 40 of d1 was resolved by an unreachable
\* notification.
C16_Witness ==
    /\ "d1" \in DOMAIN data
    /\ cmd["d1"] = [state |-> "unreachable", target |-> 40]
    /\ data["d1"].position = 40
    /\ "d1" \notin DOMAIN pending_positions
    /\ TimersOf(timers, "d1") = {}

\* ---------------------------------------------------------------------------
\* C20: a transport error leaves a session that reports not-connected
\* ---------------------------------------------------------------------------

\* The session logged in and registered, and a transport error ended its
\* receive loop afterwards; nothing has reset its _connected flag.
C20_Dead ==
    /\ websocket.exists
    /\ websocket.connected
    /\ websocket.receive_task = "ended"

C20_Reports == C20_Dead => ~session_connected(websocket)

C20_Drop == TransportDrop => ~session_connected(websocket')

C20_Repair ==
    (C20_Dead /\ EnsureConnected)
        => /\ op' # after_ensure(op)
           /\ websocket' # websocket
           /\ auth_data.present
                  => /\ sessions' = sessions + 1
                     /\ websocket' = NewSession(sessions + 1)
                     /\ op'.pc = "ws_connect"

\* C20: once a transport error has ended the receive loop of a session, the
\* session's connected property is false although its _connected flag is
\* still set, and the next ensure_websocket_connected does not take the
\* already-connected branch: it replaces the session by a new one and starts
\* connecting it.
C20_DeadSessionIsRepaired == [](C20_Reports) /\ [][C20_Drop /\ C20_Repair]_vars

\* The first session was lost to a transport error while connected, and a
\* later ensure_websocket_connected finished with the second session
\* connected.
C20_Witness ==
    /\ lost.gen = 1
    /\ sessions = 2
    /\ websocket = [NewSession(2) EXCEPT !.ws = "open", !.connected = TRUE,
                                         !.receive_task = "running",
                                         !.listeners = websocket.listeners]
    /\ op = Finished([OpIdle EXCEPT !.name = "ensure_websocket_connected"], "ok")

\* ---------------------------------------------------------------------------
\* Claims on the dispatch of inbound messages
\* ---------------------------------------------------------------------------

C21_Response ==
    \A d \in DispatchMessages, raising \in SUBSET Callbacks :
        (d.id \in DOMAIN pending_responses /\ DispatchMessage(d, raising))
        => /\ d.id \notin DOMAIN pending_responses'
           /\ last_inbound'.invoked = << >>
           /\ delivery'.log = << >>

C21_Notification ==
    \A d \in DispatchMessages, raising \in SUBSET Callbacks :
        (delivery'.log # << >> /\ DispatchMessage(d, raising))
        => /\ d.id \notin DOMAIN pending_responses
           /\ UNCHANGED <<pending_responses, calls>>

\* C21: an inbound message whose id has a slot in pending_responses removes
\* that slot and no callback is called for it, whatever msg_subclass it
\* carries; a message for which a callback is called matched no slot and
\* leaves the slots and the calls as they were.
C21_ResponseBeforeDispatch == [][C21_Response /\ C21_Notification]_vars

\* The response to the first call carried the topic hub.item.updated, which
\* has a subscriber; the call returned and no callback was called.
C21_Witness ==
    /\ Len(calls) >= 1
    /\ calls[1].outcome = "returned"
    /\ last_inbound.id = calls[1].id
    /\ delivery.topic = "hub.item.updated"
    /\ "hub.item.updated" \in DOMAIN listeners
    /\ listeners["hub.item.updated"] = <<"cb1">>
    /\ delivery.log = << >>

Subscribed(t) == IF t \in DOMAIN listeners THEN listeners[t] ELSE << >>

C22_Delivery ==
    \A d \in DispatchMessages, raising \in SUBSET Callbacks :
        (d.id \notin DOMAIN pending_responses /\ DispatchMessage(d, raising))
        => /\ Len(delivery'.log) = Len(Subscribed(d.msg_subclass))
           /\ \A i \in DOMAIN delivery'.log :
                  /\ delivery'.log[i].callback = Subscribed(d.msg_subclass)[i]
                  /\ delivery'.log[i].raised
                         <=> Subscribed(d.msg_subclass)[i] \in raising
           /\ listeners' = listeners

C22_Insertion ==
    \A t \in DispatchTopics, cb \in Callbacks :
        AddListener(t, cb)
        => /\ DOMAIN listeners' = DOMAIN listeners \cup {t}
           /\ listeners'[t] = Append(Subscribed(t), cb)
           /\ \A u \in DOMAIN listeners \ {t} : listeners'[u] = listeners[u]

C22_Removal ==
    \A t \in DispatchTopics, cb \in Callbacks :
        RemoveListener(t, cb)
        => /\ DOMAIN listeners' = DOMAIN listeners
           /\ \A u \in DOMAIN listeners \ {t} : listeners'[u] = listeners[u]
           /\ \/ /\ \A i \in DOMAIN Subscribed(t) : Subscribed(t)[i] # cb
                 /\ listeners' = listeners
              \/ \E i \in DOMAIN Subscribed(t) :
                     /\ Subscribed(t)[i] = cb
                     /\ \A j \in 1..(i - 1) : Subscribed(t)[j] # cb
                     /\ listeners'[t] = SubSeq(Subscribed(t), 1, i - 1)
                                            \o SubSeq(Subscribed(t), i + 1,
                                                      Len(Subscribed(t)))

\* C22: a notification (a message that matches no slot) makes one call for
\* each entry of its topic's callback list, in the order of the list, and a
\* call that raises is followed by the calls of the later entries;
\* add_listener appends to the topic's list and remove_listener takes out
\* the first occurrence only, so the list is in subscription order.
C22_EachSubscriberInOrder == [][C22_Delivery /\ C22_Insertion /\ C22_Removal]_vars

\* cb1 and cb2 are subscribed in that order; cb1 raised and cb2 was still
\* called after it.
C22_Witness ==
    /\ delivery.topic = "hub.item.updated"
    /\ delivery.raising = {"cb1"}
    /\ delivery.log = <<[callback |-> "cb1", raised |-> TRUE],
                        [callback |-> "cb2", raised |-> FALSE]>>

\* ---------------------------------------------------------------------------
\* C23: ensure_websocket_connected on a connected session
\* ---------------------------------------------------------------------------

\* C23: when the session reports connected, ensure_websocket_connected
\* returns at once: the session object with its transport, receive task and
\* listeners is the same, no session is created, nothing is sent, and the
\* operation goes on as after a successful connect.
C23_EnsureConnectedNoOp ==
    [][(session_connected(websocket) /\ EnsureConnected)
           => /\ websocket' = websocket
              /\ sessions' = sessions
              /\ sent' = sent
              /\ update_callbacks' = update_callbacks
              /\ auth_data' = auth_data
              /\ last_push' = last_push
              /\ op' = after_ensure(op)]_vars

\* An ensure_websocket_connected found the first session connected, with cb1
\* subscribed on it, and finished without sending anything.
C23_Witness ==
    /\ op = Finished([OpIdle EXCEPT !.name = "ensure_websocket_connected"], "ok")
    /\ sent = << >>
    /\ sessions = 1
    /\ session_connected(websocket)
    /\ websocket.gen = 1
    /\ websocket.listeners["hub.item.updated"] = <<"cb1">>

\* ---------------------------------------------------------------------------
\* C24: a failed authenticate and the bundle of an earlier one
\* ---------------------------------------------------------------------------

\* C24: when an authenticate call fails, with no other call in progress, the
\* client holds no bundle afterwards, also when an earlier call had stored
\* one.
C24_FailureDiscardsBundle ==
    [][\A c \in AuthCallers :
          (/\ auth_calls[c].pc \notin {"idle", "done"}
           /\ \A o \in AuthCallers \ {c} : auth_calls[o].pc \in {"idle", "done"}
           /\ auth_calls'[c].pc = "done"
           /\ auth_calls'[c].error # "")
          => ~auth_data'.present]_vars

\* ---------------------------------------------------------------------------
\* C25: classification of the failures of authenticate
\* ---------------------------------------------------------------------------

\* Failures of the transport, and failures of the protocol or credentials.
TransportFailures == {"client_error", "timeout"}

ProtocolFailures == {"status", "content_type", "no_identity", "no_signature",
                     "bad_identity", "no_gateway", "no_relay"}

\* C25: an authenticate call that failed on the transport (connection error
\* or timeout) ended with the connection error, and one that failed on the
\* status or the shape of a response ended with the authentication error.
C25_ErrorClassification ==
    \A c \in AuthCallers :
        (auth_calls[c].pc = "done" /\ auth_calls[c].error # "")
        => /\ auth_calls[c].reason \in TransportFailures
                  => auth_calls[c].error = "connection_error"
           /\ auth_calls[c].reason \in ProtocolFailures
                  => auth_calls[c].error = "auth_error"

\* ---------------------------------------------------------------------------
\* C26: updates for a device without pending command
\* ---------------------------------------------------------------------------

EntryOf(dict, k) == IF k \in DOMAIN dict THEN <<dict[k]>> ELSE << >>

C26_NotPending ==
    \A m \in ItemMessages \cup DeviceMessages :
        (m.dev \notin DOMAIN pending_positions /\ PassPush(m))
        => /\ UNCHANGED <<pending_positions, pending_timeouts, timers>>
           /\ DOMAIN data' = DOMAIN data
           /\ (m.name = "dimmer" /\ has_data /\ m.dev \in DOMAIN data)
                  => data'[m.dev] = [data[m.dev] EXCEPT !.position = m.value]
           /\ (m.msg_subclass = "hub.device.updated") => data' = data

C26_OtherDevices ==
    \A m \in ItemMessages \cup DeviceMessages :
        PassPush(m)
        => \A e \in Devices \ {m.dev} :
               /\ EntryOf(data', e) = EntryOf(data, e)
               /\ EntryOf(pending_positions', e) = EntryOf(pending_positions, e)
               /\ EntryOf(pending_timeouts', e) = EntryOf(pending_timeouts, e)
               /\ \A h \in TimersOf(timers, e) :
                      h \in DOMAIN timers' /\ timers'[h] = timers[h]
               /\ TimersOf(timers', e) = TimersOf(timers, e)

\* C26: an item or device update for a device that has no pending command
\* changes neither the pending positions nor the timeout handles nor the
\* timers of any device; a position update among them sets the position of
\* the device, when it is in the reported state, and nothing else of its
\* entry.  No update changes the reported entry, the pending command, the
\* handle or the timers of a device other than its own.
C26_PlainUpdatePassesThrough == [][C26_NotPending /\ C26_OtherDevices]_vars

\* A position update with value 80 went to d2, which has no pending command,
\* while d1 has its command with target 40 pending and its timer running.
C26_Witness ==
    /\ passed = [dev |-> "d2", value |-> 80]
    /\ data["d2"].position = 80
    /\ "d2" \notin DOMAIN pending_positions
    /\ "d1" \in DOMAIN pending_positions
    /\ pending_positions["d1"] = 40
    /\ "d1" \in DOMAIN pending_timeouts
    /\ pending_timeouts["d1"] \in DOMAIN timers

\* ---------------------------------------------------------------------------
\* Claims on cover commands
\* ---------------------------------------------------------------------------

\* C27: every recorded pending target, and every reported position, is
\* within 0..100 (or absent), whatever position the cover command is called
\* with.
C27_TargetsInRange ==
    /\ \A d \in DOMAIN pending_positions :
           0 <= pending_positions[d] /\ pending_positions[d] <= 100
    /\ \A d \in DOMAIN data :
           data[d].position = None
               \/ (0 <= data[d].position /\ data[d].position <= 100)

FailedCalls == {"value_error", "reconnect_failed", "no_dimmer", "call_timeout"}

\* C30: when the set_device_position call of a device's latest cover command
\* has failed, the device has no pending command, and that command is not
\* resolved by applying its target (by timeout or unreachable notification).
C30_FailedCommandNotApplied ==
    \A d \in Devices :
        api_call[d] \in FailedCalls
        => /\ d \notin DOMAIN pending_positions
           /\ cmd[d].state \notin {"timeout", "unreachable"}

\* ---------------------------------------------------------------------------
\* C28: the cached device list
\* ---------------------------------------------------------------------------

DeviceIds(list) == {list[i] : i \in DOMAIN list}

C28_Cached ==
    devices # << >> => /\ devices' = devices
                       /\ refresh'.pc # "devices"

C28_OneItemsCallEach ==
    /\ (refresh.pc # "items" /\ refresh'.pc = "items") => refresh'.idx = 1
    /\ (refresh.pc = "items" /\ refresh'.pc = "items")
           => refresh'.idx \in {refresh.idx, refresh.idx + 1}
    /\ refresh'.pc = "items" => refresh'.idx \in 1..Len(devices')
    /\ \A items \in DeviceItems :
           (RefreshItems(items) /\ refresh'.pc = "idle")
           => /\ refresh.idx = Len(devices)
              /\ DOMAIN data' = DeviceIds(devices)

C28_SameIds ==
    (has_data /\ devices # << >> /\ DOMAIN data = DeviceIds(devices))
        => DOMAIN data' = DOMAIN data

\* C28: once a refresh has obtained a device list that is not empty, the
\* list stays as it is and no later refresh awaits a device-list call; a
\* refresh awaits one items call per device of the list, in order, and
\* reports exactly the listed device ids, so the reported set of device ids
\* never changes again.
C28_NonEmptyListIsCached ==
    [][C28_Cached /\ C28_OneItemsCallEach /\ C28_SameIds]_vars

\* Both devices are reported by an earlier refresh, and a later refresh is at
\* its second items call without having listed the devices.
C28_Witness ==
    /\ has_data
    /\ devices = <<"d1", "d2">>
    /\ DOMAIN data = {"d1", "d2"}
    /\ refresh.pc = "items"
    /\ refresh.idx = 2

\* C28 as worded, for every list a refresh can obtain: once a refresh has
\* completed, and so has obtained a device list, no refresh awaits a
\* device-list call.
C28_AnyListIsCached == [][has_data => refresh'.pc # "devices"]_vars

\* ---------------------------------------------------------------------------
\* C29: pending targets, timeout handles and scheduled timers
\* ---------------------------------------------------------------------------

\* C29: the devices with a pending target are the devices with a timeout
\* handle; every handle refers to a scheduled timer (neither fired nor
\* cancelled) of its own device, different devices have different timers,
\* and every scheduled timer is the one its device's handle refers to.
C29_HandlesMatchTimers ==
    /\ DOMAIN pending_positions = DOMAIN pending_timeouts
    /\ \A d \in DOMAIN pending_timeouts :
           /\ pending_timeouts[d] \in DOMAIN timers
           /\ timers[pending_timeouts[d]].dev = d
    /\ \A h \in DOMAIN timers :
           /\ timers[h].dev \in DOMAIN pending_timeouts
           /\ pending_timeouts[timers[h].dev] = h

\* d1 and d2 both have a pending command, each with its own scheduled timer;
\* d1's was started earlier.
C29_Witness ==
    /\ DOMAIN pending_positions = {"d1", "d2"}
    /\ DOMAIN timers = {pending_timeouts["d1"], pending_timeouts["d2"]}
    /\ pending_timeouts["d1"] # pending_timeouts["d2"]
    /\ timers[pending_timeouts["d1"]].remaining < PendingTimeout
    /\ timers[pending_timeouts["d2"]].remaining = PendingTimeout

\* ---------------------------------------------------------------------------
\* Claims on the life of a call
\* ---------------------------------------------------------------------------

\* C31: pending_responses holds slots of waiting calls only: a call that has
\* returned or failed (response, timeout, or an error of send_json) has no
\* slot under its id.
C31_OnlyWaitingCallsHaveSlots ==
    \A c \in 1..Len(calls) :
        calls[c].outcome # "waiting" => calls[c].id \notin DOMAIN pending_responses

C32_Completes ==
    \A c \in 1..MaxCalls :
        (c <= Len(calls) /\ calls[c].outcome = "waiting")
            ~> (c <= Len(calls)
                    /\ calls[c].outcome \in {"returned", "timeout_error"})

C32_FailsWithoutLoop ==
    \A c \in 1..Len(calls) :
        (/\ calls[c].outcome = "waiting"
         /\ receive_task # "running"
         /\ calls'[c].outcome # "waiting")
        => /\ calls'[c].outcome = "timeout_error"
           /\ calls[c].remaining = 0

\* C32: every call that waits for its response ends, by its response or by
\* the timeout error; once the receive loop no longer runs (disconnect,
\* transport error, or the loop ended on a message) a waiting call can only
\* end with the timeout error, when its 30 units have passed.
C32_EveryCallCompletes == C32_Completes /\ [][C32_FailsWithoutLoop]_vars

\* The session was disconnected while the first call waited, and the call
\* ended with the timeout error.
C32_Witness ==
    /\ Len(calls) >= 1
    /\ calls[1].outcome = "timeout_error"
    /\ ~connected
    /\ receive_task = "cancelled"
    /\ ws = "closed"

\* ---------------------------------------------------------------------------
\* C33: each registered callback is subscribed once
\* ---------------------------------------------------------------------------

Occurrences(seq, x) == Cardinality({i \in DOMAIN seq : seq[i] = x})

\* C33: on a session that reports connected, every callback of the registry
\* occurs exactly once in the listeners of hub.item.updated and exactly once
\* in those of hub.device.updated.
C33_SubscribedExactlyOnce ==
    session_connected(websocket)
    => \A t \in Topics :
           \A cb \in Registered(update_callbacks) :
               Occurrences(websocket.listeners[t], cb) = 1

\* ---------------------------------------------------------------------------
\* C34: a failed refresh reports nothing
\* ---------------------------------------------------------------------------

\* The failing step itself changes neither the reported state, nor the
\* cached device list, nor the pending-command table and its timers.
C34_Failure ==
    [][RefreshFail
           => UNCHANGED <<has_data, data, devices, pending_positions,
                          pending_timeouts, timers>>]_vars

\* A step of a refresh (the only steps that move `refresh`) never touches the
\* pending-command table, and it changes the reported state only by ending
\* the refresh with a result that covers every device of the list.
C34_NoPartialState ==
    [][refresh' # refresh
           => /\ UNCHANGED <<pending_positions, pending_timeouts, timers>>
              /\ (data' # data \/ has_data' # has_data)
                     => /\ refresh.pc # "idle"
                        /\ refresh'.pc = "idle"
                        /\ has_data'
                        /\ DOMAIN data' = DeviceIds(devices')]_vars

\* C34: a refresh that fails leaves the reported state of every device and
\* the pending-command table as they were, and no step of a refresh reports
\* a partial result; the device list a failed refresh had already fetched
\* stays cached.
C34_FailedRefreshReportsNothing == C34_Failure /\ C34_NoPartialState

\* A refresh fetched a device list and then failed: the list is cached while
\* the reported state is still the empty one of the refresh before.
C34_Witness ==
    /\ refresh.pc = "idle"
    /\ has_data
    /\ data = EmptyDict
    /\ devices # << >>

\* C34 as worded: a failed refresh leaves the cached device list unchanged,
\* so between refreshes the cached list is the one of the last refresh that
\* returned: empty, or exactly the devices of the reported state.
C34_ListOnlyFromCompletedRefresh ==
    refresh.pc = "idle"
    => \/ devices = << >>
       \/ has_data /\ DOMAIN data = DeviceIds(devices)

\* ---------------------------------------------------------------------------
\* C35: a position update that arrives during a refresh
\* ---------------------------------------------------------------------------

\* C35: when a refresh returns, the reported position of every device that
\* received a real position update after the refresh had polled it is the
\* position it had before the return.
C35_PushNotReverted ==
    [][(refresh.pc = "items" /\ refresh'.pc = "idle" /\ has_data')
           => \A d \in overtaken : data'[d].position = data[d].position]_vars

\* ---------------------------------------------------------------------------
\* C36: a real position update always ends the pending command
\* ---------------------------------------------------------------------------

\* A position update for a device with a pending command removes the command
\* and leaves no timer of the device scheduled.
C36_Clears ==
    \A m \in ItemMessages :
        (/\ m.name = "dimmer"
         /\ m.dev \in DOMAIN pending_positions
         /\ PushUpdate(m))
        => /\ m.dev \notin DOMAIN pending_positions'
           /\ m.dev \notin DOMAIN pending_timeouts'
           /\ TimersOf(timers', m.dev) = {}

\* A timer that runs belongs to a command that is still pending: none runs
\* for a command that a position update has ended.
C36_NoTimeoutAfterUpdate ==
    \A h \in DOMAIN timers :
        (timers[h].remaining = 0 /\ TimerFire(h))
        => /\ cmd[timers[h].dev].state = "pending"
           /\ timers[h].dev \in DOMAIN pending_positions

\* A device with a pending command is a device of the reported state: the
\* cover entities exist only for the devices of the first refresh, and every
\* later refresh reports the same devices.
C36_PendingIsReported ==
    \A d \in DOMAIN pending_positions : has_data /\ d \in DOMAIN data

C37_Released ==
    unloaded.done
    => /\ websocket = NoSession
       /\ ~session_connected(unloaded.session)
       /\ unloaded.session.exists
              => /\ unloaded.session.receive_task # "running"
                 /\ unloaded.session.ws # "open"
       /\ timers = EmptyDict
       /\ pending_timeouts = EmptyDict

\* C37: after teardown nothing owned by the client stays live, and no later
\* step changes the reported state.
C37_NothingLiveAfterTeardown ==
    [](C37_Released) /\ [][unloaded.done => data' = data]_vars

====
